---- MODULE Spec2Model ----
(***************************************************************************)
(* Model of the Ralph Wiggum reasoning loop (src/tools/ralph_loop_runner.py)*)
(* and of the directory queue it works on.                                 *)
(*                                                                         *)
(* A file name is a sequence of tokens ("draft_", "q", "z", ".", "md",     *)
(* "json"); no token is a prefix of another and their first characters are *)
(* distinct, so prefix, suffix, substring and lexicographic order on token *)
(* sequences agree with the same relations on the character strings.       *)
(***************************************************************************)
EXTENDS Integers, Sequences, FiniteSets, TLC

VARIABLES
    fs,              \* directory -> (file name -> content)
    audit_enabled,   \* self.audit_enabled
    max_iterations,  \* self.max_iterations
    iteration_count, \* self.iteration_count
    task_history,    \* self.task_history
    auditLog,        \* entries written through self.audit_logger.log
    pc,              \* position of the caller in run / run_iteration
    i,               \* number of passes of the for loop of run started
    files_to_process,\* run_iteration: the not yet processed part of the list
    scanned,         \* run_iteration: the whole list built by the three scans
    tasks_completed, \* run_iteration local
    tasks_pending,   \* run_iteration local
    completed,       \* value returned by the last run_iteration
    result,          \* value returned by run ("none" before it returns)
    task,            \* the task dict in the caller's hands
    lastStage,       \* path -> current_stage of the latest task dict of that path
    lastCall,        \* what the latest execute_task call did
    analyzed,        \* paths given to task_analyzer in this iteration (a sequence)
    executed,        \* [path, stage] given to execute_task in this iteration
    mcpFired,        \* _trigger_mcp calls: target and whether it was in Approved
    nCalls,          \* number of direct execute_task calls (TaskSpec)
    envSteps,        \* number of steps watchers, skills and the human have taken
    logsDir,         \* AuditLogger.logs_dir: file name -> text of the file
    clock,           \* datetime.now(): [day, tod]
    lockHolder,      \* AuditLogger object -> the thread holding its _lock, 0 when free
    logPc,           \* thread -> its position in AuditLogger.log
    logLocal,        \* thread -> the locals log_entry, log_path (day), entries
    logReturned,     \* the entries of the log() calls that returned, with inputs
    cutDays,         \* days whose container a failed write left cut
    tamperedDays,    \* days whose container was damaged from outside
    queryArgs,       \* arguments of the latest get_logs_for_date_range call
    queryResult,     \* what that call returned, or that it raised
    nLogCalls,       \* number of log() calls started
    nFaults,         \* number of failed writes and outside damages so far
    cleanupReturned, \* << deleted_count >> once cleanup_old_logs has returned
    retryCfg,        \* the retry loop in progress: which one and its arguments
    attempt,         \* the loop variable of the retry loop
    retryPc,         \* position in the retry loop
    outcomes,        \* what each invocation of the wrapped function did
    slept,           \* the delays given to sleep, in order
    last_error,      \* the local last_error
    retryOut,        \* what the retry call returned or raised
    errorLog,        \* records appended by ErrorRecovery.log_error
    watchPc,         \* position in GmailWatcher.run
    nChecks,         \* passes of the while loop started
    watchQueue,      \* the messages the for loop has still to visit
    watchSaved,      \* the e-mails saved to Needs_Action: [check, msg]
    watchSkipped,    \* the units of work skipped: [check, unit]
    artifacts,       \* Errors and Plans: file path -> text written
    artWritten       \* the artifact-writing calls that returned a path

\* The state of a watcher's monitoring loop
watchVars == << watchPc, nChecks, watchQueue, watchSaved, watchSkipped >>

\* The error artifacts of ErrorRecovery
artVars == << artifacts, artWritten >>

\* The state of cleanup_old_logs and of the retry loops
auxVars == << cleanupReturned, retryCfg, attempt, retryPc, outcomes, slept,
              last_error, retryOut, errorLog, watchVars, artVars >>

\* The state of the utilities of src/utils
utilVars == << logsDir, clock, lockHolder, logPc, logLocal, logReturned, cutDays,
               tamperedDays, queryArgs, queryResult, nLogCalls, nFaults, auxVars >>

vars == << fs, audit_enabled, max_iterations, iteration_count, task_history,
           auditLog, pc, i, files_to_process, scanned, tasks_completed,
           tasks_pending, completed, result, task, lastStage, lastCall,
           analyzed, executed, mcpFired, nCalls, envSteps, utilVars >>

----------------------------------------------------------------------------
(* Bounds of the model *)

MaxIterInput == 2
EnvBudget == 2
MaxCalls == 8
MaxWords == 3
MaxLogCalls == 2
MaxFaults == 1

(* Program constants *)

DEFAULT_MAX_ITERATIONS == 20

STAGES == [analysis |-> 1, skill_execution |-> 2, hitl_approval |-> 3,
           mcp_execution |-> 4, audit_logging |-> 5, completion |-> 6]

----------------------------------------------------------------------------
(* File names, paths and directories *)

NeedsAction == "Needs_Action"
PendingApproval == "Pending_Approval"
Approved == "Approved"
Done == "Done"

Dirs == {NeedsAction, PendingApproval, Approved, Done}

Nq == << "q", ".", "md" >>
NdraftQ == << "draft_", "q", ".", "md" >>
NqJson == << "q", ".", "json" >>
NhiddenQ == << ".", "q", ".", "md" >>

NdraftQz == << "draft_", "q", "z", ".", "md" >>

TokenOrd(t) ==
    CASE t = "." -> 1
      [] t = "draft_" -> 2
      [] t = "json" -> 3
      [] t = "md" -> 4
      [] t = "q" -> 5
      [] t = "z" -> 6

\* a < b as strings
RECURSIVE NameLess(_, _)
NameLess(a, b) ==
    IF b = << >> THEN FALSE
    ELSE IF a = << >> THEN TRUE
    ELSE IF Head(a) = Head(b) THEN NameLess(Tail(a), Tail(b))
    ELSE TokenOrd(Head(a)) < TokenOrd(Head(b))

\* sorted(...) of a set of names
RECURSIVE SortedNames(_)
SortedNames(S) ==
    IF S = {} THEN << >>
    ELSE LET m == CHOOSE x \in S : \A y \in S \ {x} : NameLess(x, y)
         IN << m >> \o SortedNames(S \ {m})

\* name.endswith(".md"), the glob "*.md"
IsMd(n) == Len(n) >= 2 /\ n[Len(n) - 1] = "." /\ n[Len(n)] = "md"

\* name.startswith('.')
IsHidden(n) == Len(n) >= 1 /\ n[1] = "."

\* Path(p).stem: the name without its last suffix; a leading dot starts no suffix
Stem(n) ==
    LET dots == {k \in 2..Len(n) : n[k] = "." /\ k < Len(n)}
    IN IF dots = {} THEN n
       ELSE SubSeq(n, 1, (CHOOSE k \in dots : \A j \in dots : j <= k) - 1)

\* s occurs in n as a substring: what the glob "*" + s + "*" matches
Contains(n, s) ==
    \E k \in 0..(Len(n) - Len(s)) : SubSeq(n, k + 1, k + Len(s)) = s

PathOf(d, n) == [dir |-> d, name |-> n]

Files(f, d) == DOMAIN f[d]

Exists(f, p) == p.name \in Files(f, p.dir)

Put(f, d, n, c) ==
    [f EXCEPT ![d] = [m \in (DOMAIN f[d]) \cup {n} |-> IF m = n THEN c ELSE f[d][m]]]

Remove(f, d, n) ==
    [f EXCEPT ![d] = [m \in (DOMAIN f[d]) \ {n} |-> f[d][m]]]

----------------------------------------------------------------------------
(* File contents and the classifier *)

\* The keywords _determine_task_type looks for in the lowercased content
SalesWords == {"sales", "client", "project"}
FinancialWords == {"urgent", "invoice", "payment"}
ScheduleWords == {"meeting", "schedule", "calendar"}

\* A content: whether the text starts with "---"; the "key: value" lines of
\* the text between that "---" and the next one, each a key and the tokens
\* of its raw value; the keywords that occur in the lowercased text; and
\* whether the bytes decode as UTF-8 (open(..., encoding='utf-8').read()
\* raises when not).
RawContent(fenced, meta, words, utf8) ==
    [fenced |-> fenced, meta |-> meta, words |-> words, utf8 |-> utf8]

\* A file whose frontmatter declares `type` (none when type is "")
Content(type, words, utf8) ==
    RawContent(type # "", IF type # "" THEN << << "type", << type >> >> >> ELSE << >>,
               words, utf8)

RECURSIVE StripTokens(_, _)
\* str.strip(chars) on a tokenised value: the tokens in chars taken off both ends
StripTokens(v, chars) ==
    IF v = << >> THEN v
    ELSE IF v[1] \in chars THEN StripTokens(Tail(v), chars)
    ELSE IF v[Len(v)] \in chars THEN StripTokens(SubSeq(v, 1, Len(v) - 1), chars)
    ELSE v

\* value.strip().strip('"\''): the text left (values carry one text token)
StripValue(v) ==
    LET inner == StripTokens(StripTokens(v, {" "}), {"\"", "'"})
    IN IF inner = << >> THEN "" ELSE inner[1]

\* _parse_frontmatter: the metadata dict; a later line replaces an earlier
\* one with the same key, and a text that does not start with "---" has none
ParseFrontmatter(c) ==
    IF c.fenced
    THEN [k \in {c.meta[j][1] : j \in 1..Len(c.meta)} |->
            LET last == CHOOSE j \in 1..Len(c.meta) :
                            /\ c.meta[j][1] = k
                            /\ \A h \in 1..Len(c.meta) : c.meta[h][1] = k => h <= j
            IN StripValue(c.meta[last][2])]
    ELSE [k \in {} |-> ""]

\* metadata.get('type', '') of _parse_frontmatter(content)
ParseFrontmatterType(c) ==
    LET metadata == ParseFrontmatter(c)
    IN IF "type" \in DOMAIN metadata THEN metadata["type"] ELSE ""

\* A classifier that looks at the keywords first and at the metadata last
DetermineTaskTypeKeywordsFirst(words, metaType) ==
    IF words \cap SalesWords # {} THEN
        IF "facebook" \in words \/ "instagram" \in words THEN "facebook_instagram_lead"
        ELSE IF "twitter" \in words THEN "twitter_lead"
        ELSE IF "linkedin" \in words THEN "linkedin_lead"
        ELSE "social_media_lead"
    ELSE IF words \cap FinancialWords # {} THEN "financial_task"
    ELSE IF words \cap ScheduleWords # {} THEN "schedule_task"
    ELSE IF metaType # "" THEN metaType
    ELSE "general_task"

\* A classifier that tries the financial rule before the sales rule
DetermineTaskTypeFinancialFirst(words, metaType) ==
    IF metaType # "" THEN metaType
    ELSE IF words \cap FinancialWords # {} THEN "financial_task"
    ELSE IF words \cap SalesWords # {} THEN
        IF "facebook" \in words \/ "instagram" \in words THEN "facebook_instagram_lead"
        ELSE IF "twitter" \in words THEN "twitter_lead"
        ELSE IF "linkedin" \in words THEN "linkedin_lead"
        ELSE "social_media_lead"
    ELSE IF words \cap ScheduleWords # {} THEN "schedule_task"
    ELSE "general_task"

DetermineTaskType(words, metaType) ==
    IF metaType # "" THEN metaType
    ELSE IF words \cap SalesWords # {} THEN
        IF "facebook" \in words \/ "instagram" \in words THEN "facebook_instagram_lead"
        ELSE IF "twitter" \in words THEN "twitter_lead"
        ELSE IF "linkedin" \in words THEN "linkedin_lead"
        ELSE "social_media_lead"
    ELSE IF words \cap FinancialWords # {} THEN "financial_task"
    ELSE IF words \cap ScheduleWords # {} THEN "schedule_task"
    ELSE "general_task"

IsMultiStepTask(task_type) ==
    task_type \in {"facebook_instagram_lead", "twitter_lead", "linkedin_lead",
                   "social_media_lead", "email_response_required"}

\* Which of the markers "lead", "social", "financial", "schedule" occur in a
\* task type as substrings (the `in` tests of _build_workflow)
MarkersIn(task_type) ==
    CASE task_type = "facebook_instagram_lead" -> {"lead"}
      [] task_type = "twitter_lead" -> {"lead"}
      [] task_type = "linkedin_lead" -> {"lead"}
      [] task_type = "social_media_lead" -> {"lead", "social"}
      [] task_type = "financial_task" -> {"financial"}
      [] task_type = "schedule_task" -> {"schedule"}
      [] task_type = "social_response_draft" -> {"social"}
      [] task_type = "financial_lead" -> {"lead", "financial"}
      [] task_type = "financial_schedule" -> {"financial", "schedule"}
      [] OTHER -> {}

FullWorkflow == << "analysis", "skill_execution", "hitl_approval",
                   "mcp_execution", "audit_logging", "completion" >>

\* A workflow builder that tests "financial" before "lead" and "social"
BuildWorkflowFinancialFirst(task_type) ==
    IF "financial" \in MarkersIn(task_type) THEN
        << "analysis", "skill_execution", "completion" >>
    ELSE IF MarkersIn(task_type) \cap {"lead", "social"} # {} THEN FullWorkflow
    ELSE IF "schedule" \in MarkersIn(task_type) THEN
        << "analysis", "mcp_execution", "completion" >>
    ELSE << "analysis", "completion" >>

BuildWorkflow(task_type) ==
    IF MarkersIn(task_type) \cap {"lead", "social"} # {} THEN FullWorkflow
    ELSE IF "financial" \in MarkersIn(task_type) THEN
        << "analysis", "skill_execution", "completion" >>
    ELSE IF "schedule" \in MarkersIn(task_type) THEN
        << "analysis", "mcp_execution", "completion" >>
    ELSE << "analysis", "completion" >>

AuditEntry(action_type, target, res) ==
    [action_type |-> action_type, target |-> target, result |-> res]

\* log_audit: entries reach the log only when audit logging is enabled
LogAudit(log, entries) == IF audit_enabled THEN log \o entries ELSE log

\* An analyzer whose fallback takes the workflow of the type "error" from
\* _build_workflow
TaskAnalyzerBuiltFallback(f, p) ==
    IF Exists(f, p) /\ f[p.dir][p.name].utf8 THEN
        LET c == f[p.dir][p.name]
            tt == DetermineTaskType(c.words, ParseFrontmatterType(c))
        IN [task |-> [file_path |-> p, task_type |-> tt,
                      is_multi_step |-> IsMultiStepTask(tt),
                      workflow |-> BuildWorkflow(tt),
                      current_stage |-> "analysis"],
            audit |-> << AuditEntry("task_analyzed", p, "success") >>]
    ELSE [task |-> [file_path |-> p, task_type |-> "error",
                    is_multi_step |-> FALSE,
                    workflow |-> BuildWorkflow("error"),
                    current_stage |-> "analysis"],
          audit |-> << AuditEntry("task_analysis_failed", p, "failed") >>]

\* task_analyzer(file_path) on file system f: the task dict and its audit entry
TaskAnalyzer(f, p) ==
    IF Exists(f, p) /\ f[p.dir][p.name].utf8 THEN
        LET c == f[p.dir][p.name]
            tt == DetermineTaskType(c.words, ParseFrontmatterType(c))
        IN [task |-> [file_path |-> p, task_type |-> tt,
                      is_multi_step |-> IsMultiStepTask(tt),
                      workflow |-> BuildWorkflow(tt),
                      current_stage |-> "analysis"],
            audit |-> << AuditEntry("task_analyzed", p, "success") >>]
    ELSE [task |-> [file_path |-> p, task_type |-> "error",
                    is_multi_step |-> FALSE,
                    workflow |-> << "completion" >>,
                    current_stage |-> "analysis"],
          audit |-> << AuditEntry("task_analysis_failed", p, "failed") >>]

----------------------------------------------------------------------------
(* The stage handlers.  Each returns what one call does: the task's stage   *)
(* afterwards, the value returned, the file system afterwards, the entries *)
(* it appends to the audit log and to task_history, the _trigger_mcp calls *)
(* it makes, the handlers that ran and the number of assignments to        *)
(* task['current_stage'].                                                  *)

HistEntry(t, stage, res) == [file |-> t.file_path.name, stage |-> stage, result |-> res]

Outcome(stage, ret, f, audit, hist, mcp, ran, writes) ==
    [stage |-> stage, ret |-> ret, fs |-> f, audit |-> audit, hist |-> hist,
     mcp |-> mcp, ran |-> ran, writes |-> writes]

ExecuteAnalysisStage(t, f) ==
    Outcome("skill_execution", FALSE, f, << >>,
            << HistEntry(t, "analysis", "complete") >>, << >>,
            << "analysis" >>, 1)

\* skills_to_trigger.get(task_type); "" when the type is not mapped
SkillFor(task_type) ==
    CASE task_type = "facebook_instagram_lead" -> "social_summary_generator"
      [] task_type = "twitter_lead" -> "twitter_post_generator"
      [] task_type = "linkedin_lead" -> "auto_linkedin_poster"
      [] task_type = "social_media_lead" -> "social_summary_generator"
      [] OTHER -> ""

\* The keywords in the text of a draft: the name of the skill
DraftContent(skill) ==
    Content("skill_draft",
            CASE skill = "twitter_post_generator" -> {"twitter"}
              [] skill = "auto_linkedin_poster" -> {"linkedin"}
              [] OTHER -> {},
            TRUE)

DraftName(n) == << "draft_" >> \o n

\* _simulate_skill_execution: nothing when the source cannot be read, else
\* the draft written (over an older one) in Pending_Approval
SimulateSkillExecution(f, skill, p) ==
    IF Exists(f, p) /\ f[p.dir][p.name].utf8
    THEN Put(f, PendingApproval, DraftName(p.name), DraftContent(skill))
    ELSE f

CheckDraftCreated(f, t) ==
    \E n \in Files(f, PendingApproval) : Contains(n, Stem(t.file_path.name))

\* An approval check that globs the directory of the drafts
CheckApprovalStatusInPending(f, t) ==
    \E n \in Files(f, PendingApproval) : Contains(n, Stem(t.file_path.name))

CheckApprovalStatus(f, t) ==
    \E n \in Files(f, Approved) : Contains(n, Stem(t.file_path.name))

\* A skill stage that goes to hitl_approval on any matching draft, whether
\* or not a skill was triggered
ExecuteSkillStageAnyDraft(t, f) ==
    LET skill == SkillFor(t.task_type)
        f1 == IF skill # "" THEN SimulateSkillExecution(f, skill, t.file_path) ELSE f
    IN IF CheckDraftCreated(f1, t)
       THEN Outcome("hitl_approval", FALSE, f1, << >>,
                    << HistEntry(t, "skill_execution", "draft_created") >>, << >>,
                    << "skill_execution" >>, 1)
       ELSE Outcome("completion", FALSE, f1, << >>, << >>, << >>,
                    << "skill_execution" >>, 1)

ExecuteSkillStage(t, f) ==
    LET skill == SkillFor(t.task_type)
        f1 == IF skill # "" THEN SimulateSkillExecution(f, skill, t.file_path) ELSE f
    IN IF skill # "" /\ CheckDraftCreated(f1, t)
       THEN Outcome("hitl_approval", FALSE, f1, << >>,
                    << HistEntry(t, "skill_execution", "draft_created") >>, << >>,
                    << "skill_execution" >>, 1)
       ELSE Outcome("completion", FALSE, f1, << >>, << >>, << >>,
                    << "skill_execution" >>, 1)

ExecuteHitlStage(t, f) ==
    IF CheckApprovalStatus(f, t)
    THEN Outcome("mcp_execution", FALSE, f,
                 << AuditEntry("hitl_approved", t.file_path, "success") >>,
                 << HistEntry(t, "hitl_approval", "approved") >>, << >>,
                 << "hitl_approval" >>, 1)
    ELSE Outcome(t.current_stage, TRUE, f, << >>,
                 << HistEntry(t, "hitl_approval", "pending") >>, << >>,
                 << "hitl_approval" >>, 0)

\* _trigger_mcp: simulated, always reports success
TriggerMcp(t) == TRUE

McpCall(t, f) ==
    [target |-> t.file_path, inApproved |-> t.file_path.name \in Files(f, Approved)]

\* A handler whose else branch leaves the stage alone and reports the task done
McpBranchStays(mcp_executed, t, f) ==
    IF mcp_executed
    THEN Outcome("audit_logging", FALSE, f, << >>,
                 << HistEntry(t, "mcp_execution", "success") >>,
                 << McpCall(t, f) >>, << "mcp_execution" >>, 1)
    ELSE Outcome(t.current_stage, TRUE, f, << >>, << >>,
                 << McpCall(t, f) >>, << "mcp_execution" >>, 0)

\* The two branches of _execute_mcp_stage on what _trigger_mcp reported
McpBranch(mcp_executed, t, f) ==
    IF mcp_executed
    THEN Outcome("audit_logging", FALSE, f, << >>,
                 << HistEntry(t, "mcp_execution", "success") >>,
                 << McpCall(t, f) >>, << "mcp_execution" >>, 1)
    ELSE Outcome("audit_logging", FALSE, f, << >>, << >>,
                 << McpCall(t, f) >>, << "mcp_execution" >>, 1)

ExecuteMcpStage(t, f) == McpBranch(TriggerMcp(t), t, f)

ExecuteAuditStage(t, f) ==
    Outcome("completion", FALSE, f,
            << AuditEntry("task_completed", t.file_path, "success") >>,
            << HistEntry(t, "audit_logging", "logged") >>, << >>,
            << "audit_logging" >>, 1)

\* _move_to_done: shutil.move when the file exists (the destination name is
\* replaced), nothing otherwise
MoveToDone(f, p) ==
    IF Exists(f, p)
    THEN Put(Remove(f, p.dir, p.name), Done, p.name, f[p.dir][p.name])
    ELSE f

\* A completion that reports the task complete only when it moved a file
ExecuteCompletionStageIfMoved(t, f) ==
    Outcome(t.current_stage, Exists(f, t.file_path), MoveToDone(f, t.file_path),
            << AuditEntry("task_finalized", t.file_path, "success") >>,
            << HistEntry(t, "completion", "TASK_COMPLETE") >>, << >>,
            << "completion" >>, 0)

ExecuteCompletionStage(t, f) ==
    Outcome(t.current_stage, TRUE, MoveToDone(f, t.file_path),
            << AuditEntry("task_finalized", t.file_path, "success") >>,
            << HistEntry(t, "completion", "TASK_COMPLETE") >>, << >>,
            << "completion" >>, 0)

\* An execute_task that falls through from analysis into skill_execution
ExecuteTaskChained(t, f) ==
    CASE t.current_stage = "analysis" ->
            LET a == ExecuteAnalysisStage(t, f)
                b == ExecuteSkillStage([t EXCEPT !.current_stage = a.stage], a.fs)
            IN Outcome(b.stage, b.ret, b.fs, a.audit \o b.audit, a.hist \o b.hist,
                       a.mcp \o b.mcp, a.ran \o b.ran, a.writes + b.writes)
      [] t.current_stage = "skill_execution" -> ExecuteSkillStage(t, f)
      [] t.current_stage = "hitl_approval" -> ExecuteHitlStage(t, f)
      [] t.current_stage = "mcp_execution" -> ExecuteMcpStage(t, f)
      [] t.current_stage = "audit_logging" -> ExecuteAuditStage(t, f)
      [] t.current_stage = "completion" -> ExecuteCompletionStage(t, f)
      [] OTHER -> Outcome(t.current_stage, TRUE, f, << >>, << >>, << >>, << >>, 0)

ExecuteTask(t, f) ==
    CASE t.current_stage = "analysis" -> ExecuteAnalysisStage(t, f)
      [] t.current_stage = "skill_execution" -> ExecuteSkillStage(t, f)
      [] t.current_stage = "hitl_approval" -> ExecuteHitlStage(t, f)
      [] t.current_stage = "mcp_execution" -> ExecuteMcpStage(t, f)
      [] t.current_stage = "audit_logging" -> ExecuteAuditStage(t, f)
      [] t.current_stage = "completion" -> ExecuteCompletionStage(t, f)
      [] OTHER -> Outcome(t.current_stage, TRUE, f, << >>, << >>, << >>, << >>, 0)

----------------------------------------------------------------------------
(* The directory scans *)

RECURSIVE Tagged(_, _, _)
Tagged(d, names, stage) ==
    IF names = << >> THEN << >>
    ELSE << [path |-> PathOf(d, Head(names)), stage |-> stage] >>
         \o Tagged(d, Tail(names), stage)

\* scan_needs_action: every file whose name does not start with a dot, sorted
ScanNeedsAction(f) ==
    SortedNames({n \in Files(f, NeedsAction) : ~IsHidden(n)})

\* scan_pending_approval: the "*.md" files, sorted
ScanPendingApproval(f) ==
    SortedNames({n \in Files(f, PendingApproval) : IsMd(n)})

\* A scan of the wrong directory: the drafts still awaiting approval
ScanApprovedOfPending(f) ==
    SortedNames({n \in Files(f, PendingApproval) : IsMd(n)})

\* scan_approved: the "*.md" files, sorted
ScanApproved(f) ==
    SortedNames({n \in Files(f, Approved) : IsMd(n)})

\* The found files put in front of the list instead of behind it
PrependFound(list, found) == found \o list

\* files_to_process.append(...) for every file of one scan, in scan order
AppendFound(list, found) == list \o found

----------------------------------------------------------------------------
(* Ghost records *)

LoopTarget == [dir |-> "", name |-> << "ralph_loop_runner" >>]

EmptyDir == [n \in {} |-> Content("", {}, TRUE)]

NoStages == [p \in {} |-> "analysis"]

SetStage(ls, p, stage) ==
    [q \in (DOMAIN ls) \cup {p} |-> IF q = p THEN stage ELSE ls[q]]

CallRecord(t, o) ==
    [path |-> t.file_path, from |-> t.current_stage, to |-> o.stage,
     ret |-> o.ret, ran |-> o.ran, writes |-> o.writes,
     approved |-> CheckApprovalStatus(fs, t), workflow |-> t.workflow,
     task_type |-> t.task_type]

----------------------------------------------------------------------------
(* RalphWiggumLoop.__init__ *)

\* self.max_iterations = max_iterations or self.DEFAULT_MAX_ITERATIONS
EffectiveMaxIterations(n) == IF n = 0 THEN DEFAULT_MAX_ITERATIONS ELSE n

\* The state of a watcher's monitoring loop at rest
WatchIdle ==
    /\ watchPc = "idle"
    /\ nChecks = 0
    /\ watchQueue = << >>
    /\ watchSaved = << >>
    /\ watchSkipped = << >>

\* The error artifacts of ErrorRecovery at rest
ArtIdle ==
    /\ artifacts = << >>
    /\ artWritten = << >>

\* No cleanup_old_logs call has returned and no retry loop was entered
AuxIdle ==
    /\ ArtIdle
    /\ WatchIdle
    /\ cleanupReturned = << >>
    /\ retryCfg = << >>
    /\ attempt = 0
    /\ retryPc = "idle"
    /\ outcomes = << >>
    /\ slept = << >>
    /\ last_error = "None"
    /\ retryOut = << >>
    /\ errorLog = << >>

\* The utilities at rest: an empty Logs directory, no call made
UtilIdle ==
    /\ AuxIdle
    /\ logsDir = << >>
    /\ clock = [day |-> 0, tod |-> 0]
    /\ lockHolder = 0
    /\ logPc = << >>
    /\ logLocal = << >>
    /\ logReturned = << >>
    /\ cutDays = {}
    /\ tamperedDays = {}
    /\ queryArgs = << >>
    /\ queryResult = << >>
    /\ nLogCalls = 0
    /\ nFaults = 0

\* The loop constructed over the vault f with a max_iterations argument of
\* the set given, before any of its methods ran
ConstructedWith(start, f, given) ==
    /\ UtilIdle
    /\ fs = f
    /\ audit_enabled \in BOOLEAN
    /\ max_iterations \in {EffectiveMaxIterations(n) : n \in given}
    /\ iteration_count = 0
    /\ task_history = << >>
    /\ auditLog = << >>
    /\ pc = start
    /\ i = 0
    /\ files_to_process = << >>
    /\ scanned = << >>
    /\ tasks_completed = 0
    /\ tasks_pending = 0
    /\ completed = FALSE
    /\ result = "none"
    /\ task = << >>
    /\ lastStage = NoStages
    /\ lastCall = << >>
    /\ analyzed = << >>
    /\ executed = << >>
    /\ mcpFired = << >>
    /\ nCalls = 0
    /\ envSteps = 0

\* The loop constructed with a positive max_iterations
ConstructedOn(start, f) == ConstructedWith(start, f, 1..MaxIterInput)

Constructed(start) == ConstructedOn(start, [d \in Dirs |-> EmptyDir])

Init == Constructed("constructed")

----------------------------------------------------------------------------
(* RalphWiggumLoop.run and run_iteration *)

\* run: the "ralph_loop_started" entry
RunStart ==
    /\ pc = "constructed"
    /\ auditLog' = LogAudit(auditLog,
                            << AuditEntry("ralph_loop_started", LoopTarget, "success") >>)
    /\ pc' = "for"
    /\ UNCHANGED << utilVars, fs, audit_enabled, max_iterations, iteration_count, task_history,
                    i, files_to_process, scanned, tasks_completed, tasks_pending,
                    completed, result, task, lastStage, lastCall, analyzed,
                    executed, mcpFired, nCalls, envSteps >>

\* A wrong bound of the for loop: one pass too many
BudgetLeftOffByOne(passes, budget) == passes <= budget

\* for i in range(self.max_iterations): another pass is due
BudgetLeft(passes, budget) == passes < budget

\* for i in range(self.max_iterations): run_iteration() begins
RunNextIteration ==
    /\ pc = "for"
    /\ BudgetLeft(i, max_iterations)
    /\ i' = i + 1
    /\ iteration_count' = iteration_count + 1
    /\ files_to_process' = << >>
    /\ scanned' = << >>
    /\ tasks_completed' = 0
    /\ tasks_pending' = 0
    /\ analyzed' = << >>
    /\ executed' = << >>
    /\ pc' = "scan_approved"
    /\ UNCHANGED << utilVars, fs, audit_enabled, max_iterations, task_history, auditLog,
                    completed, result, task, lastStage, lastCall, mcpFired,
                    nCalls, envSteps >>

\* run: the loop ran out; the "ralph_loop_incomplete" entry; return False
RunExhausted ==
    /\ pc = "for"
    /\ ~BudgetLeft(i, max_iterations)
    /\ auditLog' = LogAudit(auditLog,
                            << AuditEntry("ralph_loop_incomplete", LoopTarget, "partial") >>)
    /\ result' = "false"
    /\ pc' = "returned"
    /\ UNCHANGED << utilVars, fs, audit_enabled, max_iterations, iteration_count, task_history,
                    i, files_to_process, scanned, tasks_completed, tasks_pending,
                    completed, task, lastStage, lastCall, analyzed, executed,
                    mcpFired, nCalls, envSteps >>

IterScanApproved ==
    /\ pc = "scan_approved"
    /\ scanned' = AppendFound(scanned, Tagged(Approved, ScanApproved(fs), "mcp_execution"))
    /\ pc' = "scan_pending"
    /\ UNCHANGED << utilVars, fs, audit_enabled, max_iterations, iteration_count, task_history,
                    auditLog, i, files_to_process, tasks_completed, tasks_pending,
                    completed, result, task, lastStage, lastCall, analyzed,
                    executed, mcpFired, nCalls, envSteps >>

IterScanPending ==
    /\ pc = "scan_pending"
    /\ scanned' = AppendFound(scanned,
                               Tagged(PendingApproval, ScanPendingApproval(fs), "hitl_approval"))
    /\ pc' = "scan_needs_action"
    /\ UNCHANGED << utilVars, fs, audit_enabled, max_iterations, iteration_count, task_history,
                    auditLog, i, files_to_process, tasks_completed, tasks_pending,
                    completed, result, task, lastStage, lastCall, analyzed,
                    executed, mcpFired, nCalls, envSteps >>

IterScanNeedsAction ==
    /\ pc = "scan_needs_action"
    /\ scanned' = AppendFound(scanned, Tagged(NeedsAction, ScanNeedsAction(fs), "analysis"))
    /\ files_to_process' = scanned'
    /\ pc' = "files"
    /\ UNCHANGED << utilVars, fs, audit_enabled, max_iterations, iteration_count, task_history,
                    auditLog, i, tasks_completed, tasks_pending, completed, result,
                    task, lastStage, lastCall, analyzed, executed, mcpFired,
                    nCalls, envSteps >>

\* if not files_to_process: return True
IterNothingToDo ==
    /\ pc = "files"
    /\ scanned = << >>
    /\ completed' = TRUE
    /\ pc' = "iteration_returned"
    /\ UNCHANGED << utilVars, fs, audit_enabled, max_iterations, iteration_count, task_history,
                    auditLog, i, files_to_process, scanned, tasks_completed,
                    tasks_pending, result, task, lastStage, lastCall, analyzed,
                    executed, mcpFired, nCalls, envSteps >>

\* The stage left as task_analyzer set it
ForcedStageNotForced(file_info, analysis) == analysis.current_stage

\* The stage run_iteration gives the task dict of a scanned file
ForcedStage(file_info, analysis) == file_info.stage

\* task = self.task_analyzer(file_path); task['current_stage'] = file_info['stage']
IterAnalyze ==
    /\ pc = "files"
    /\ files_to_process # << >>
    /\ task = << >>
    /\ LET file_info == Head(files_to_process)
           r == TaskAnalyzer(fs, file_info.path)
           t == [r.task EXCEPT !.current_stage = ForcedStage(file_info, r.task)]
       IN /\ task' = << t >>
          /\ auditLog' = LogAudit(auditLog, r.audit)
          /\ analyzed' = Append(analyzed, file_info.path)
          /\ lastStage' = SetStage(lastStage, file_info.path, t.current_stage)
    /\ UNCHANGED << utilVars, fs, audit_enabled, max_iterations, iteration_count, task_history,
                    pc, i, files_to_process, scanned, tasks_completed, tasks_pending,
                    completed, result, lastCall, executed, mcpFired, nCalls,
                    envSteps >>

\* task_complete = self.execute_task(task), and the two counters
IterExecute ==
    /\ pc = "files"
    /\ task # << >>
    /\ LET t == task[1]
           o == ExecuteTask(t, fs)
       IN /\ fs' = o.fs
          /\ auditLog' = LogAudit(auditLog, o.audit)
          /\ task_history' = task_history \o o.hist
          /\ mcpFired' = mcpFired \o o.mcp
          /\ lastCall' = << CallRecord(t, o) >>
          /\ lastStage' = SetStage(lastStage, t.file_path, o.stage)
          /\ executed' = Append(executed, [path |-> t.file_path, stage |-> t.current_stage])
          /\ tasks_completed' = IF o.ret THEN tasks_completed + 1 ELSE tasks_completed
          /\ tasks_pending' = IF o.ret THEN tasks_pending ELSE tasks_pending + 1
    /\ task' = << >>
    /\ files_to_process' = Tail(files_to_process)
    /\ UNCHANGED << utilVars, audit_enabled, max_iterations, iteration_count, pc, i, scanned,
                    completed, result, analyzed, nCalls, envSteps >>

\* The "all tasks complete" test at the end of run_iteration
AllComplete(pending, f) ==
    /\ pending = 0
    /\ Len(ScanNeedsAction(f)) = 0
    /\ Len(ScanPendingApproval(f)) = 0

IterEndCheck ==
    /\ pc = "files"
    /\ scanned # << >>
    /\ files_to_process = << >>
    /\ task = << >>
    /\ completed' = AllComplete(tasks_pending, fs)
    /\ pc' = "iteration_returned"
    /\ UNCHANGED << utilVars, fs, audit_enabled, max_iterations, iteration_count, task_history,
                    auditLog, i, files_to_process, scanned, tasks_completed,
                    tasks_pending, result, task, lastStage, lastCall, analyzed,
                    executed, mcpFired, nCalls, envSteps >>

\* run: if completed: the "ralph_loop_completed" entry; return True
RunCompleted ==
    /\ pc = "iteration_returned"
    /\ completed
    /\ auditLog' = LogAudit(auditLog,
                            << AuditEntry("ralph_loop_completed", LoopTarget, "success") >>)
    /\ result' = "true"
    /\ pc' = "returned"
    /\ UNCHANGED << utilVars, fs, audit_enabled, max_iterations, iteration_count, task_history,
                    i, files_to_process, scanned, tasks_completed, tasks_pending,
                    completed, task, lastStage, lastCall, analyzed, executed,
                    mcpFired, nCalls, envSteps >>

RunContinue ==
    /\ pc = "iteration_returned"
    /\ ~completed
    /\ pc' = "for"
    /\ UNCHANGED << utilVars, fs, audit_enabled, max_iterations, iteration_count, task_history,
                    auditLog, i, files_to_process, scanned, tasks_completed,
                    tasks_pending, completed, result, task, lastStage, lastCall,
                    analyzed, executed, mcpFired, nCalls, envSteps >>

----------------------------------------------------------------------------
(* The other users of the directories: watchers, skills, the human reviewer *)

LeadContent == Content("twitter_lead", {"twitter", "sales"}, TRUE)
PlainContent == Content("", {}, TRUE)
BinaryContent == Content("", {}, FALSE)
ExternalDraftContent == Content("twitter_response_draft", {"twitter"}, TRUE)

WatcherNames == {Nq, NqJson, NhiddenQ}
WatcherContents == {LeadContent, PlainContent, BinaryContent}
DraftNames == {NdraftQ}
PlacedNames == {NdraftQ, NdraftQz}

EnvMay == envSteps < EnvBudget /\ pc # "returned"

EnvFrame ==
    UNCHANGED << utilVars, audit_enabled, max_iterations, iteration_count, task_history,
                 auditLog, pc, i, files_to_process, scanned, tasks_completed,
                 tasks_pending, completed, result, task, lastStage, lastCall,
                 analyzed, executed, mcpFired, nCalls >>

\* A new file appears in Needs_Action: a watcher's item, a copied document
\* of any format, or a dot file
WatcherDrop ==
    /\ EnvMay
    /\ \E n \in WatcherNames \ Files(fs, NeedsAction), c \in WatcherContents :
          fs' = Put(fs, NeedsAction, n, c)
    /\ envSteps' = envSteps + 1
    /\ EnvFrame

\* A skill writes a draft into Pending_Approval
SkillDraft ==
    /\ EnvMay
    /\ \E n \in DraftNames :
          fs' = Put(fs, PendingApproval, n, ExternalDraftContent)
    /\ envSteps' = envSteps + 1
    /\ EnvFrame

\* The reviewer moves a draft from Pending_Approval to Approved
HumanApprove ==
    /\ EnvMay
    /\ \E n \in Files(fs, PendingApproval) :
          fs' = Put(Remove(fs, PendingApproval, n), Approved, n, fs[PendingApproval][n])
    /\ envSteps' = envSteps + 1
    /\ EnvFrame

\* The reviewer places a file in Approved
HumanPlaceApproved ==
    /\ EnvMay
    /\ \E n \in PlacedNames \ Files(fs, Approved) :
          fs' = Put(fs, Approved, n, ExternalDraftContent)
    /\ envSteps' = envSteps + 1
    /\ EnvFrame

\* The reviewer moves a draft from Pending_Approval to /Rejected
HumanReject ==
    /\ EnvMay
    /\ \E n \in Files(fs, PendingApproval) : fs' = Remove(fs, PendingApproval, n)
    /\ envSteps' = envSteps + 1
    /\ EnvFrame

Next ==
    \/ RunStart
    \/ RunNextIteration
    \/ RunExhausted
    \/ IterScanApproved
    \/ IterScanPending
    \/ IterScanNeedsAction
    \/ IterNothingToDo
    \/ IterAnalyze
    \/ IterExecute
    \/ IterEndCheck
    \/ RunCompleted
    \/ RunContinue
    \/ WatcherDrop
    \/ SkillDraft
    \/ HumanApprove
    \/ HumanPlaceApproved
    \/ HumanReject

Spec == Init /\ [][Next]_vars

----------------------------------------------------------------------------
(* A caller that analyses one file and then calls execute_task on the task *)
(* dict again and again: the stage handlers as execute_task chains them.   *)

QueueDirs == {NeedsAction, PendingApproval, Approved}

\* task = loop.task_analyzer(path)
DirectAnalyze ==
    /\ pc = "direct"
    /\ task = << >>
    /\ \E d \in QueueDirs : \E n \in Files(fs, d) :
          LET r == TaskAnalyzer(fs, PathOf(d, n))
          IN /\ task' = << r.task >>
             /\ auditLog' = LogAudit(auditLog, r.audit)
             /\ analyzed' = Append(analyzed, PathOf(d, n))
             /\ lastStage' = SetStage(lastStage, PathOf(d, n), r.task.current_stage)
    /\ UNCHANGED << utilVars, fs, audit_enabled, max_iterations, iteration_count, task_history,
                    pc, i, files_to_process, scanned, tasks_completed, tasks_pending,
                    completed, result, lastCall, executed, mcpFired, nCalls,
                    envSteps >>

\* loop.execute_task(task), the dict keeping the stage the handler gave it
DirectExecute ==
    /\ pc = "direct"
    /\ task # << >>
    /\ nCalls < MaxCalls
    /\ LET t == task[1]
           o == ExecuteTask(t, fs)
       IN /\ fs' = o.fs
          /\ auditLog' = LogAudit(auditLog, o.audit)
          /\ task_history' = task_history \o o.hist
          /\ mcpFired' = mcpFired \o o.mcp
          /\ lastCall' = << CallRecord(t, o) >>
          /\ lastStage' = SetStage(lastStage, t.file_path, o.stage)
          /\ executed' = Append(executed, [path |-> t.file_path, stage |-> t.current_stage])
          /\ task' = << [t EXCEPT !.current_stage = o.stage] >>
    /\ nCalls' = nCalls + 1
    /\ UNCHANGED << utilVars, audit_enabled, max_iterations, iteration_count, pc, i,
                    files_to_process, scanned, tasks_completed, tasks_pending,
                    completed, result, analyzed, envSteps >>

\* Whether a call of execute_task for t reaches the open(draft_path, 'w') of
\* _simulate_skill_execution: the stage is skill_execution, the type has a
\* skill and the source was read
WritesDraft(t, f) ==
    /\ t.current_stage = "skill_execution"
    /\ SkillFor(t.task_type) # ""
    /\ Exists(f, t.file_path)
    /\ f[t.file_path.dir][t.file_path.name].utf8

\* loop.execute_task(task) when the draft cannot be written (Pending_Approval
\* is gone or read-only, the disk is full): open() raises OSError, no handler
\* of _simulate_skill_execution, _trigger_skill, _execute_skill_stage or
\* execute_task catches it, and it reaches the caller.  Nothing was written,
\* logged or assigned before.
DirectExecuteRaises ==
    /\ pc = "direct"
    /\ task # << >>
    /\ nCalls < MaxCalls
    /\ WritesDraft(task[1], fs)
    /\ pc' = "raised"
    /\ nCalls' = nCalls + 1
    /\ UNCHANGED << utilVars, fs, audit_enabled, max_iterations, iteration_count, task_history,
                    auditLog, i, files_to_process, scanned, tasks_completed,
                    tasks_pending, completed, result, task, lastStage, lastCall,
                    analyzed, executed, mcpFired, envSteps >>

TaskInit == Constructed("direct")

TaskNext ==
    \/ DirectAnalyze
    \/ DirectExecute
    \/ DirectExecuteRaises
    \/ WatcherDrop
    \/ SkillDraft
    \/ HumanApprove
    \/ HumanPlaceApproved
    \/ HumanReject

TaskSpec == TaskInit /\ [][TaskNext]_vars

----------------------------------------------------------------------------
(* The analyzer and the handlers applied to one file of any content: the   *)
(* vault holds one file in Needs_Action when the loop is constructed, and  *)
(* perhaps a draft an external skill left in Pending_Approval.             *)

Keywords ==
    SalesWords \cup FinancialWords \cup ScheduleWords
        \cup {"facebook", "instagram", "twitter", "linkedin"}

KeywordSets == {w \in SUBSET Keywords : Cardinality(w) <= MaxWords}

FewKeywordSets == {{}, {"sales", "twitter"}, {"invoice"}, {"meeting"}}

\* Values of the frontmatter key "type": the classifier's own results, the
\* types the watchers and skills of the repository write, and values that
\* hold more than one of the markers _build_workflow looks for
ExplicitTypes ==
    {"facebook_instagram_lead", "twitter_lead", "linkedin_lead", "social_media_lead",
     "financial_task", "schedule_task", "general_task", "email_response_required",
     "error", "file_drop", "gmail", "whatsapp", "skill_draft",
     "social_response_draft", "twitter_response_draft",
     "financial_lead", "financial_schedule"}

\* Frontmatter blocks as they are written by hand: a quoted value, the key
\* twice, a block not at the start of the text, an empty value, no type key
HandWrittenBlocks ==
    {[fenced |-> TRUE, meta |-> << << "type", << " ", "\"", "twitter_lead", "\"" >> >> >>],
     [fenced |-> TRUE, meta |-> << << "type", << "general_task" >> >>,
                                   << "type", << "linkedin_lead" >> >> >>],
     [fenced |-> FALSE, meta |-> << << "type", << "twitter_lead" >> >> >>],
     [fenced |-> TRUE, meta |-> << << "type", << " " >> >> >>],
     [fenced |-> TRUE, meta |-> << << "platform", << "twitter" >> >> >>]}

ClassifierContents ==
    {Content("", w, TRUE) : w \in KeywordSets}
        \cup {Content(ty, w, TRUE) : ty \in ExplicitTypes, w \in FewKeywordSets}
        \cup {RawContent(b.fenced, b.meta, w, TRUE) : b \in HandWrittenBlocks,
                                                      w \in FewKeywordSets}
        \cup {BinaryContent}

OneFile(n, c) == [m \in {n} |-> c]

ClassifyVaults ==
    {[d \in Dirs |-> CASE d = NeedsAction -> OneFile(Nq, c)
                       [] d = PendingApproval -> pending
                       [] OTHER -> EmptyDir] :
        c \in ClassifierContents,
        pending \in {EmptyDir, OneFile(NdraftQ, ExternalDraftContent)}}

ClassifyInit == \E f \in ClassifyVaults : ConstructedOn("direct", f)

ClassifyNext ==
    \/ DirectAnalyze
    \/ DirectExecute

ClassifySpec == ClassifyInit /\ [][ClassifyNext]_vars

----------------------------------------------------------------------------
(* Helpers of the properties *)

IsLeadFile(c) ==
    c.utf8 /\ IsMultiStepTask(DetermineTaskType(c.words, ParseFrontmatterType(c)))

\* Some file of directory d carries the stem of name n in its name
MatchIn(f, d, n) == \E m \in Files(f, d) : Contains(m, Stem(n))

EntriesFor(p) == {k \in 1..Len(auditLog) : auditLog[k].target = p}

PartialEntries == {k \in 1..Len(auditLog) : auditLog[k].result = "partial"}

StageOfDir(d) ==
    CASE d = Approved -> "mcp_execution"
      [] d = PendingApproval -> "hitl_approval"
      [] OTHER -> "analysis"

\* The stages of the calls made so far, a repeated hitl_approval counted once
RECURSIVE StagesRun(_)
StagesRun(ex) ==
    IF ex = << >> THEN << >>
    ELSE LET rest == StagesRun(SubSeq(ex, 1, Len(ex) - 1))
             st == ex[Len(ex)].stage
         IN IF rest # << >> /\ rest[Len(rest)] = st /\ st = "hitl_approval"
            THEN rest
            ELSE Append(rest, st)

IsPrefixOf(a, b) == Len(a) <= Len(b) /\ SubSeq(b, 1, Len(a)) = a

AllScansEmpty(f) ==
    /\ ScanApproved(f) = << >>
    /\ ScanPendingApproval(f) = << >>
    /\ ScanNeedsAction(f) = << >>

----------------------------------------------------------------------------
(* C1: a lead-type file placed in Needs_Action is taken by the loop's      *)
(* iterations to a draft in Pending_Approval and, once approved, through   *)
(* mcp_execution, audit_logging and completion into Done with at least 3   *)
(* audit entries for it.  Stated on the state in which run returns: every  *)
(* lead file the loop has processed from Needs_Action has by then a draft  *)
(* in Pending_Approval, an approved file waiting in Approved, or is in     *)
(* Done with at least 3 audit entries.                                     *)
C1_LeadReachesDraftThenDone ==
    pc = "returned" =>
        \A n \in Files(fs, NeedsAction) \cup Files(fs, Done) :
            LET p == PathOf(NeedsAction, n)
            IN (/\ p \in DOMAIN lastStage
                /\ audit_enabled
                /\ IF n \in Files(fs, NeedsAction)
                   THEN IsLeadFile(fs[NeedsAction][n])
                   ELSE IsLeadFile(fs[Done][n]))
               => \/ MatchIn(fs, PendingApproval, n)
                  \/ MatchIn(fs, Approved, n)
                  \/ (n \in Files(fs, Done) /\ Cardinality(EntriesFor(p)) >= 3)

(* C2: during run, _trigger_mcp fires for an item only while a file of     *)
(* that item is in Approved: every call's target is a path of Approved and *)
(* the file is there when the call is made.                                *)
C2_McpOnlyForApproved ==
    pc # "direct" =>
        \A k \in 1..Len(mcpFired) :
            mcpFired[k].target.dir = Approved /\ mcpFired[k].inApproved

C2_Witness ==
    /\ pc = "files"
    /\ Len(mcpFired) >= 1
    /\ Files(fs, PendingApproval) # {}

(* C3: run_iteration returns true exactly when no item processed in the    *)
(* pass needs further work and, at the check that ends the pass, the scans *)
(* of Approved, Pending_Approval and Needs_Action all find nothing, also   *)
(* when files were added or moved while the pass ran.  (A pass whose scans *)
(* found nothing has no item and no later check: it returns true.)         *)
C3_CompleteIffAllEmpty ==
    [][(pc = "files" /\ pc' = "iteration_returned")
        => (completed' <=> (\/ scanned = << >>
                            \/ (tasks_pending = 0 /\ AllScansEmpty(fs))))]_vars

(* C4 as claimed: when the budget runs out, run has made exactly           *)
(* max_iterations iterations, returns false and has recorded exactly one   *)
(* audit entry with result "partial".                                      *)
C4_ExactlyOnePartialEntry ==
    (pc = "returned" /\ result = "false") =>
        /\ iteration_count = max_iterations
        /\ Cardinality(PartialEntries) = 1

(* C4 amended: run never makes more than max_iterations iterations; every  *)
(* iteration finishes over all the files of its scan before the budget is  *)
(* looked at; a run whose last iteration was not complete has made exactly *)
(* max_iterations iterations and returns false; it has then recorded       *)
(* exactly one "partial" entry when audit logging is enabled and none when *)
(* it is disabled; a run that returns true records no "partial" entry.     *)
C4_BudgetAndPartialWhenEnabled ==
    /\ iteration_count <= max_iterations
    /\ iteration_count = i
    /\ (pc = "for" /\ i > 0) => (executed = scanned /\ task = << >>)
    /\ (pc = "returned" /\ ~completed) => result = "false"
    /\ (pc = "returned" /\ result = "false") =>
          /\ iteration_count = max_iterations
          /\ ~completed
          /\ Cardinality(PartialEntries) = (IF audit_enabled THEN 1 ELSE 0)
    /\ result # "false" => PartialEntries = {}

C4_Witness ==
    /\ pc = "returned"
    /\ result = "false"
    /\ audit_enabled
    /\ max_iterations = 2
    /\ Len(scanned) >= 2

(* C5: the stages execute_task puts an item through are the stages of its  *)
(* workflow, in workflow order, one per call (hitl_approval may repeat).   *)
C5_StagesFollowWorkflow ==
    (pc = "direct" /\ task # << >> /\ task[1].task_type # "error") =>
        IsPrefixOf(StagesRun(executed), task[1].workflow)

(* C6: the index of an item's current_stage in the order of STAGES never   *)
(* decreases from one advance to the next, within a call and across loop   *)
(* iterations.                                                             *)
C6_StageNeverDecreases ==
    [][\A p \in DOMAIN lastStage :
          STAGES[lastStage'[p]] >= STAGES[lastStage[p]]]_vars

(* C7: execute_task at hitl_approval for an item with no matching file in  *)
(* Approved leaves the stage at hitl_approval, leaves every directory as   *)
(* it is, triggers no execution and returns; with a matching file in       *)
(* Approved the stage becomes mcp_execution.                               *)
C7_HitlWaitsOrAdvances ==
    [][(/\ pc = "files"
        /\ task # << >>
        /\ task' = << >>
        /\ task[1].current_stage = "hitl_approval")
       => LET p == task[1].file_path
          IN /\ lastCall' # << >>
             /\ lastCall'[1].path = p
             /\ mcpFired' = mcpFired
             /\ fs' = fs
             /\ IF MatchIn(fs, Approved, p.name)
                THEN lastStage'[p] = "mcp_execution"
                ELSE lastStage'[p] = "hitl_approval"]_vars

C7_Witness ==
    /\ lastCall # << >>
    /\ lastCall[1].from = "hitl_approval"
    /\ lastCall[1].to = "hitl_approval"
    /\ ~lastCall[1].approved
    /\ Files(fs, Approved) # {}

(* C8: every item that reaches the completion stage has been through       *)
(* audit_logging before, whatever happened in the earlier stages.          *)
C8_AuditBeforeCompletion ==
    (pc = "direct" /\ task # << >> /\ task[1].current_stage = "completion") =>
        \E k \in 1..Len(executed) : executed[k].stage = "audit_logging"

(* C9: in an iteration every file found by the three scans is classified   *)
(* once and given to execute_task once, in the order of the list, with the *)
(* stage of its directory whatever the classification computed, and no     *)
(* task dict is left over from the iteration before.                       *)
C9_OneCallPerScannedFile ==
    pc \in {"files", "iteration_returned", "for"} =>
        /\ \A a, b \in 1..Len(scanned) : scanned[a].path = scanned[b].path => a = b
        /\ Len(executed) + Len(files_to_process) = Len(scanned)
        /\ Len(analyzed) = Len(executed) + Len(task)
        /\ \A k \in 1..Len(analyzed) : analyzed[k] = scanned[k].path
        /\ \A k \in 1..Len(executed) :
              /\ executed[k].path = scanned[k].path
              /\ executed[k].stage = StageOfDir(executed[k].path.dir)
        /\ pc # "files" => (files_to_process = << >> /\ task = << >>)

C9_Witness ==
    /\ pc = "iteration_returned"
    /\ Len(executed) >= 2
    /\ \E k \in 1..Len(executed) : executed[k].stage = "hitl_approval"
    /\ \E k \in 1..Len(executed) : executed[k].stage = "analysis"

(* C10: an execute_task call runs exactly one stage handler, the one of    *)
(* the task's current stage, and assigns current_stage at most once.       *)
C10_OneHandlerPerCall ==
    lastCall # << >> =>
        /\ Len(lastCall[1].ran) = 1
        /\ lastCall[1].ran[1] = lastCall[1].from
        /\ lastCall[1].writes <= 1
        /\ lastCall[1].to # lastCall[1].from => lastCall[1].writes = 1

C10_Witness ==
    /\ pc = "direct"
    /\ lastCall # << >>
    /\ lastCall[1].from = "skill_execution"
    /\ lastCall[1].to = "hitl_approval"

(* C11: within one iteration every file found in Approved is processed    *)
(* before any file found in Pending_Approval, and every one of those       *)
(* before any file found in Needs_Action.                                  *)
DirRank(d) ==
    CASE d = Approved -> 1
      [] d = PendingApproval -> 2
      [] OTHER -> 3

C11_PriorityOrder ==
    /\ \A a, b \in 1..Len(executed) :
          a < b => DirRank(executed[a].path.dir) <= DirRank(executed[b].path.dir)
    /\ \A a \in 1..Len(executed) : \A b \in 1..Len(files_to_process) :
          pc = "files" =>
              DirRank(executed[a].path.dir) <= DirRank(files_to_process[b].path.dir)

C11_Witness ==
    /\ pc = "iteration_returned"
    /\ Len(executed) = 2
    /\ executed[1].path.dir = Approved
    /\ executed[2].path.dir = NeedsAction

(* C12: a call of execute_task for an item at mcp_execution sets the stage *)
(* to audit_logging and asks for another call, on the branch taken when    *)
(* the trigger reports success and on the branch taken when it reports     *)
(* that it is unavailable.                                                 *)
C12_McpAlwaysToAudit ==
    /\ (lastCall # << >> /\ lastCall[1].from = "mcp_execution") =>
          /\ lastCall[1].to = "audit_logging"
          /\ ~lastCall[1].ret
    /\ (task # << >> /\ task[1].current_stage = "mcp_execution") =>
          \A reported \in BOOLEAN :
              LET o == McpBranch(reported, task[1], fs)
              IN /\ o.stage = "audit_logging"
                 /\ ~o.ret
                 /\ o.fs = fs

C12_Witness ==
    /\ pc = "files"
    /\ lastCall # << >>
    /\ lastCall[1].from = "mcp_execution"
    /\ lastCall[1].to = "audit_logging"
    /\ lastStage[lastCall[1].path] = "audit_logging"

(* C13: a call of execute_task at skill_execution triggers a skill (which  *)
(* writes the draft of a readable source) only for the four mapped lead    *)
(* types; the stage afterwards is hitl_approval exactly when a skill was   *)
(* triggered and a draft matching the item is then in Pending_Approval,    *)
(* and completion otherwise.                                               *)
MappedTypes ==
    {"facebook_instagram_lead", "twitter_lead", "linkedin_lead", "social_media_lead"}

C15_ErrorItemNotStalled ==
    [][(/\ pc = "files"
        /\ task = << >>
        /\ task' # << >>
        /\ task'[1].task_type = "error"
        /\ task'[1].file_path.dir = NeedsAction
        /\ task'[1].file_path \in DOMAIN lastStage)
       => task'[1].current_stage # "analysis"]_vars

(* C16: when the file cannot be read, task_analyzer raises nothing: it     *)
(* returns task_type "error", is_multi_step false and the workflow         *)
(* [completion], and records one audit entry with result "failed" for the *)
(* file.                                                                   *)
Unreadable(f, p) == ~Exists(f, p) \/ ~f[p.dir][p.name].utf8

FailedEntry(p) == AuditEntry("task_analysis_failed", p, "failed")

AnalyzedUnreadable ==
    /\ pc = "files"
    /\ task = << >>
    /\ task' # << >>
    /\ Unreadable(fs, task'[1].file_path)

ErrorDictReturned ==
    /\ pc' = "files"
    /\ task'[1].task_type = "error"
    /\ ~task'[1].is_multi_step
    /\ task'[1].workflow = << "completion" >>

C16_ErrorFallbackAlwaysLogged ==
    [][AnalyzedUnreadable
       => /\ ErrorDictReturned
          /\ auditLog' = Append(auditLog, FailedEntry(task'[1].file_path))]_vars

(* C16 as it holds: the same, the audit entry being recorded when audit    *)
(* logging is enabled and no entry when the loop was built with it         *)
(* disabled.                                                               *)
C16_ErrorFallback ==
    [][AnalyzedUnreadable
       => /\ ErrorDictReturned
          /\ IF audit_enabled
             THEN auditLog' = Append(auditLog, FailedEntry(task'[1].file_path))
             ELSE auditLog' = auditLog]_vars

C16_Witness ==
    /\ pc = "files"
    /\ task # << >>
    /\ task[1].task_type = "error"
    /\ ~Exists(fs, task[1].file_path)
    /\ audit_enabled
    /\ auditLog # << >>
    /\ auditLog[Len(auditLog)] = FailedEntry(task[1].file_path)

(* C17: when the skill trigger fails inside a stage because the draft      *)
(* cannot be written to Pending_Approval, the exception does not leave     *)
(* execute_task: the call returns, and the item's stage has moved on from  *)
(* skill_execution toward completion.                                      *)
C17_TriggerFailureContained ==
    /\ pc # "raised"
    /\ (lastCall # << >> /\ lastCall[1].from = "skill_execution") =>
          STAGES[lastCall[1].to] > STAGES["skill_execution"]

(* C18: for every item whose metadata declares a non-empty type, the       *)
(* classifier returns exactly that value, whatever keywords the body holds.*)
AnalyzedContent ==
    LET p == task[1].file_path
    IN IF Exists(fs, p) THEN fs[p.dir][p.name] ELSE fs[Done][p.name]

C18_ExplicitTypeWins ==
    (task # << >> /\ AnalyzedContent.utf8) =>
        LET metadata == ParseFrontmatter(AnalyzedContent)
        IN ("type" \in DOMAIN metadata /\ metadata["type"] # "") =>
              task[1].task_type = metadata["type"]

C18_Witness ==
    /\ task # << >>
    /\ AnalyzedContent.utf8
    /\ ParseFrontmatterType(AnalyzedContent) = "file_drop"
    /\ AnalyzedContent.words = {"sales", "twitter"}
    /\ task[1].task_type = "file_drop"

(* C19: when the metadata declares no type, only the first matching rule   *)
(* of a fixed order applies: a sales, client or project keyword gives a    *)
(* lead type (facebook_instagram_lead on facebook or instagram, else       *)
(* twitter_lead on twitter, else linkedin_lead on linkedin, else           *)
(* social_media_lead); else a financial keyword gives financial_task; else *)
(* a schedule keyword gives schedule_task; else general_task.              *)
C19_FirstRuleWins ==
    (task # << >> /\ AnalyzedContent.utf8 /\ ParseFrontmatterType(AnalyzedContent) = "") =>
        LET w == AnalyzedContent.words
            got == task[1].task_type
            sales == w \cap {"sales", "client", "project"} # {}
            money == w \cap {"urgent", "invoice", "payment"} # {}
            dates == w \cap {"meeting", "schedule", "calendar"} # {}
            meta == "facebook" \in w \/ "instagram" \in w
        IN /\ (sales /\ meta) => got = "facebook_instagram_lead"
           /\ (sales /\ ~meta /\ "twitter" \in w) => got = "twitter_lead"
           /\ (sales /\ ~meta /\ "twitter" \notin w /\ "linkedin" \in w) =>
                 got = "linkedin_lead"
           /\ (sales /\ ~meta /\ "twitter" \notin w /\ "linkedin" \notin w) =>
                 got = "social_media_lead"
           /\ (~sales /\ money) => got = "financial_task"
           /\ (~sales /\ ~money /\ dates) => got = "schedule_task"
           /\ (~sales /\ ~money /\ ~dates) => got = "general_task"

C19_Witness ==
    /\ task # << >>
    /\ AnalyzedContent.utf8
    /\ ParseFrontmatterType(AnalyzedContent) = ""
    /\ AnalyzedContent.words = {"client", "invoice", "meeting"}
    /\ task[1].task_type = "social_media_lead"

(* C20: the workflow is a function of the task type alone: a type holding  *)
(* "lead" or "social" gets the six stages; else a type holding "financial" *)
(* gets analysis, skill_execution, completion; else a type holding         *)
(* "schedule" gets analysis, mcp_execution, completion; every other type   *)
(* gets analysis, completion.  Every workflow is an order-preserving       *)
(* subsequence of the six stages and ends in completion.  The workflow of  *)
(* a file that could not be read is not built from a type (it is the       *)
(* fallback [completion] of C16); the table is stated for the files that   *)
(* were classified, the shape for all.                                     *)
RECURSIVE IsSubsequence(_, _)
IsSubsequence(a, b) ==
    IF a = << >> THEN TRUE
    ELSE IF b = << >> THEN FALSE
    ELSE IF Head(a) = Head(b) THEN IsSubsequence(Tail(a), Tail(b))
    ELSE IsSubsequence(a, Tail(b))

LeadOrSocialTypes ==
    {"facebook_instagram_lead", "twitter_lead", "linkedin_lead", "social_media_lead",
     "social_response_draft", "financial_lead"}

C21_MultiStepIffSixStages ==
    (task # << >> /\ AnalyzedContent.utf8) =>
        (task[1].is_multi_step <=>
            task[1].workflow = << "analysis", "skill_execution", "hitl_approval",
                                  "mcp_execution", "audit_logging", "completion" >>)

----------------------------------------------------------------------------
(* src/utils/audit_logger.py: the AuditLogger and its Logs directory *)

\* datetime.now(): a day and a moment of that day
Moment(day, tod) == [day |-> day, tod |-> tod]

\* The calendar days the model follows
Days == {0, 1}

LastDay == CHOOSE d \in Days : \A e \in Days : e <= d

\* The moments of a day the model tells apart: its start and a later one
TimesOfDay == {0, 1}

LastTimeOfDay == CHOOSE t \in TimesOfDay : \A u \in TimesOfDay : u <= t

Moments == {Moment(d, t) : d \in Days, t \in TimesOfDay}

\* a <= b on datetimes
NotAfter(a, b) == a.day < b.day \/ (a.day = b.day /\ a.tod <= b.tod)

\* date.strftime("%Y%m%d"): the eight digits of the day
DateToken(day) == [digits |-> "YYYYMMDD", day |-> day]

\* _get_audit_log_path(date): the name of the container of the day
AuditLogPath(date) == << "audit_", DateToken(date.day), ".json" >>

\* The text of a file of the Logs directory.  kind "array": what json.dump
\* wrote for the list items; "cut_after_item": such a text cut right after
\* an item or the comma behind it; "cut_in_item": cut inside an item, items
\* being the whole ones before the cut; "empty": no bytes; "garbage": not
\* JSON and not starting with "["; "object": a JSON object with the keys
\* items.
Text(kind, items) == [kind |-> kind, items |-> items]

JsonDump(entries) == Text("array", entries)

\* The read of log(): content.strip(), then json.loads on a text that starts
\* with "[" and ends with "]", json.loads(content.rstrip(',') + ']') on one
\* that only starts with "[", and [] on anything else or on any exception
ReadForAppend(text) ==
    CASE text.kind = "array" -> text.items
      [] text.kind = "cut_after_item" -> text.items
      [] OTHER -> << >>

\* The read of get_logs_for_date_range: all_logs.extend(json.load(f)), the
\* exception of json.load or extend swallowed.  Extending by a dict adds
\* its keys.
ReadForQuery(text) ==
    CASE text.kind = "array" -> text.items
      [] text.kind = "object" -> text.items
      [] OTHER -> << >>

DEFAULT_ACTOR == "AI_Employee_System"

\* log(): the entry built from the arguments at the moment now
LogEntry(call, now) ==
    [timestamp |-> now,
     date |-> now.day,
     action_type |-> call.action_type,
     actor |-> IF call.actor = "" THEN DEFAULT_ACTOR ELSE call.actor,
     target |-> call.target,
     approval_status |-> "not_required",
     result |-> call.result,
     message |-> ""]

\* A string met as an element of all_logs: a key of a JSON object
JsonString(k) == [str |-> k]

\* Whether x has the method get, that is, is a dict
IsDict(x) == DOMAIN x # {"str"}

\* x.get('timestamp', '') as a sort key: a before-or-equal b
KeyNotAfter(a, b) == NotAfter(a.timestamp, b.timestamp)

RECURSIVE InsertByKey(_, _)
InsertByKey(sorted, x) ==
    IF sorted = << >> THEN << x >>
    ELSE IF KeyNotAfter(sorted[Len(sorted)], x) THEN Append(sorted, x)
    ELSE Append(InsertByKey(SubSeq(sorted, 1, Len(sorted) - 1), x), sorted[Len(sorted)])

RECURSIVE SortedFrom(_, _)
SortedFrom(done, rest) ==
    IF rest = << >> THEN done ELSE SortedFrom(InsertByKey(done, Head(rest)), Tail(rest))

\* A sort that leaves the list as it is
NoSort(logs) == logs

\* all_logs.sort(key=lambda x: x.get('timestamp', '')): stable, ascending
SortByTimestamp(logs) == SortedFrom(<< >>, logs)

RECURSIVE CollectLogs(_, _, _, _)
\* The while loop of get_logs_for_date_range: current_date <= end_date,
\* current_date += timedelta(days=1)
CollectLogs(dir, current_date, end_date, all_logs) ==
    IF NotAfter(current_date, end_date)
    THEN LET log_path == AuditLogPath(current_date)
             found == IF log_path \in DOMAIN dir
                      THEN ReadForQuery(dir[log_path]) ELSE << >>
         IN CollectLogs(dir, Moment(current_date.day + 1, current_date.tod),
                        end_date, all_logs \o found)
    ELSE all_logs

\* get_logs_for_date_range: the sorted list, or the AttributeError of the
\* sort key on an element that is no dict
GetLogsForDateRange(dir, start_date, end_date) ==
    LET all_logs == CollectLogs(dir, start_date, end_date, << >>)
    IN IF \A k \in 1..Len(all_logs) : IsDict(all_logs[k])
       THEN [raised |-> FALSE, logs |-> SortByTimestamp(all_logs)]
       ELSE [raised |-> TRUE, logs |-> << >>]

\* The threads of the process that share the logger
Threads == {1, 2}

\* The arguments of a log() call ("" for an argument left at None)
LogCallInputs ==
    [action_type : {"file_processed"}, actor : {"", "human"},
     target : {"a.md"}, result : {"success"}]

\* The AuditLogger object a thread logs through: the threads share object 1
\* unless an object of their own was constructed
LoggerOf(t) == IF t \in DOMAIN lockHolder THEN t ELSE 1

\* A lock that every thread finds free
LockAlwaysFree(t) == TRUE

\* threading.Lock of the thread's logger: free when no thread holds it
LockFree(t) == lockHolder[LoggerOf(t)] = 0

\* The logger is followed until the first query has returned
Unqueried == queryArgs = << >>

UtilFrame ==
    UNCHANGED << auxVars, fs, audit_enabled, max_iterations, iteration_count, task_history,
                 auditLog, pc, i, files_to_process, scanned, tasks_completed,
                 tasks_pending, completed, result, task, lastStage, lastCall,
                 analyzed, executed, mcpFired, nCalls, envSteps >>

\* A thread calls log(): timestamp, date and log_entry are built, log_path
\* is computed, all before the lock is asked for
LogCall(t) ==
    /\ Unqueried
    /\ logPc[t] = "idle"
    /\ nLogCalls < MaxLogCalls
    /\ \E call \in LogCallInputs :
          logLocal' = [logLocal EXCEPT ![t] =
                          [call |-> call, log_entry |-> LogEntry(call, clock),
                           log_path |-> AuditLogPath(clock), entries |-> << >>]]
    /\ logPc' = [logPc EXCEPT ![t] = "built"]
    /\ nLogCalls' = nLogCalls + 1
    /\ UNCHANGED << logsDir, clock, lockHolder, logReturned, cutDays, tamperedDays,
                    queryArgs, queryResult, nFaults >>
    /\ UtilFrame

\* with self._lock:
LogAcquire(t) ==
    /\ Unqueried
    /\ logPc[t] = "built"
    /\ LockFree(t)
    /\ lockHolder' = [lockHolder EXCEPT ![LoggerOf(t)] = t]
    /\ logPc' = [logPc EXCEPT ![t] = "locked"]
    /\ UNCHANGED << logsDir, clock, logLocal, logReturned, cutDays, tamperedDays,
                    queryArgs, queryResult, nLogCalls, nFaults >>
    /\ UtilFrame

\* entries = [] and the guarded read of the existing container
LogRead(t) ==
    /\ Unqueried
    /\ logPc[t] = "locked"
    /\ LET log_path == logLocal[t].log_path
       IN logLocal' = [logLocal EXCEPT ![t].entries =
                          IF log_path \in DOMAIN logsDir
                          THEN ReadForAppend(logsDir[log_path]) ELSE << >>]
    /\ logPc' = [logPc EXCEPT ![t] = "read"]
    /\ UNCHANGED << logsDir, clock, lockHolder, logReturned, cutDays, tamperedDays,
                    queryArgs, queryResult, nLogCalls, nFaults >>
    /\ UtilFrame

WriteFile(dir, name, text) ==
    [n \in (DOMAIN dir) \cup {name} |-> IF n = name THEN text ELSE dir[n]]

\* entries.append(log_entry), the file rewritten with json.dump, the lock
\* released and the path returned
LogWrite(t) ==
    /\ Unqueried
    /\ logPc[t] = "read"
    /\ LET l == logLocal[t]
       IN /\ logsDir' = WriteFile(logsDir, l.log_path,
                                  JsonDump(Append(l.entries, l.log_entry)))
          /\ logReturned' = Append(logReturned, [call |-> l.call, entry |-> l.log_entry])
    /\ lockHolder' = IF lockHolder[LoggerOf(t)] = t
                     THEN [lockHolder EXCEPT ![LoggerOf(t)] = 0]
                     ELSE lockHolder
    /\ logPc' = [logPc EXCEPT ![t] = "idle"]
    /\ logLocal' = [logLocal EXCEPT ![t] = << >>]
    /\ UNCHANGED << clock, cutDays, tamperedDays, queryArgs, queryResult,
                    nLogCalls, nFaults >>
    /\ UtilFrame

\* What open(log_path, 'w') followed by a json.dump that stops part-way
\* leaves: nothing, or the text up to some point of the list, inside an item
\* or after one (the closing bracket is the last thing json.dump writes)
CutTexts(entries) ==
    {Text("empty", << >>)}
        \cup {Text("cut_after_item", SubSeq(entries, 1, k)) : k \in 0..Len(entries)}
        \cup {Text("cut_in_item", SubSeq(entries, 1, k)) : k \in 0..(Len(entries) - 1)}

\* The write fails after open() truncated the file (disk full, a value
\* json cannot serialise, the process killed): the exception leaves log(),
\* the with statement releases the lock
LogWriteFails(t) ==
    /\ Unqueried
    /\ logPc[t] = "read"
    /\ nFaults < MaxFaults
    /\ LET l == logLocal[t]
       IN /\ \E text \in CutTexts(Append(l.entries, l.log_entry)) :
                logsDir' = WriteFile(logsDir, l.log_path, text)
          /\ cutDays' = cutDays \cup {l.log_entry.date}
    /\ lockHolder' = IF lockHolder[LoggerOf(t)] = t
                     THEN [lockHolder EXCEPT ![LoggerOf(t)] = 0]
                     ELSE lockHolder
    /\ logPc' = [logPc EXCEPT ![t] = "idle"]
    /\ logLocal' = [logLocal EXCEPT ![t] = << >>]
    /\ nFaults' = nFaults + 1
    /\ UNCHANGED << clock, logReturned, tamperedDays, queryArgs,
                    queryResult, nLogCalls >>
    /\ UtilFrame

\* A container is damaged from outside the logger: overwritten with bytes
\* that are no JSON, or with a JSON object
Tamper ==
    /\ Unqueried
    /\ nFaults < MaxFaults
    /\ \E d \in Days :
          /\ AuditLogPath(Moment(d, 0)) \in DOMAIN logsDir
          /\ \E text \in {Text("garbage", << >>),
                          Text("object", << JsonString("entries") >>)} :
                logsDir' = WriteFile(logsDir, AuditLogPath(Moment(d, 0)), text)
          /\ tamperedDays' = tamperedDays \cup {d}
    /\ nFaults' = nFaults + 1
    /\ UNCHANGED << clock, lockHolder, logPc, logLocal, logReturned, cutDays,
                    queryArgs, queryResult, nLogCalls >>
    /\ UtilFrame

\* A caller asks for the logs of a range; one call is followed
Query ==
    /\ Unqueried
    /\ \A t \in Threads : logPc[t] = "idle"
    /\ \E start_date \in Moments, end_date \in Moments :
          /\ queryArgs' = << [start_date |-> start_date, end_date |-> end_date] >>
          /\ queryResult' = << GetLogsForDateRange(logsDir, start_date, end_date) >>
    /\ UNCHANGED << logsDir, clock, lockHolder, logPc, logLocal, logReturned,
                    cutDays, tamperedDays, nLogCalls, nFaults >>
    /\ UtilFrame

\* Time passes
Tick ==
    /\ Unqueried
    /\ \/ /\ clock.tod < LastTimeOfDay
          /\ clock' = Moment(clock.day, clock.tod + 1)
       \/ /\ clock.tod = LastTimeOfDay
          /\ clock.day < LastDay
          /\ clock' = Moment(clock.day + 1, 0)
    /\ UNCHANGED << logsDir, lockHolder, logPc, logLocal, logReturned, cutDays,
                    tamperedDays, queryArgs, queryResult, nLogCalls, nFaults >>
    /\ UtilFrame

\* The loop not constructed: the logger is used on its own
LoopIdle ==
    /\ fs = [d \in Dirs |-> EmptyDir]
    /\ audit_enabled = TRUE
    /\ max_iterations = DEFAULT_MAX_ITERATIONS
    /\ iteration_count = 0
    /\ task_history = << >>
    /\ auditLog = << >>
    /\ pc = "none"
    /\ i = 0
    /\ files_to_process = << >>
    /\ scanned = << >>
    /\ tasks_completed = 0
    /\ tasks_pending = 0
    /\ completed = FALSE
    /\ result = "none"
    /\ task = << >>
    /\ lastStage = NoStages
    /\ lastCall = << >>
    /\ analyzed = << >>
    /\ executed = << >>
    /\ mcpFired = << >>
    /\ nCalls = 0
    /\ envSteps = 0

\* AuditLogger.__init__ on an empty Logs directory, shared by the threads
LogInit ==
    /\ LoopIdle
    /\ AuxIdle
    /\ logsDir = << >>
    /\ clock = Moment(0, 0)
    /\ lockHolder = << 0 >>
    /\ logPc = [t \in Threads |-> "idle"]
    /\ logLocal = [t \in Threads |-> << >>]
    /\ logReturned = << >>
    /\ cutDays = {}
    /\ tamperedDays = {}
    /\ queryArgs = << >>
    /\ queryResult = << >>
    /\ nLogCalls = 0
    /\ nFaults = 0

LogNext ==
    \/ \E t \in Threads : LogCall(t)
    \/ \E t \in Threads : LogAcquire(t)
    \/ \E t \in Threads : LogRead(t)
    \/ \E t \in Threads : LogWrite(t)
    \/ \E t \in Threads : LogWriteFails(t)
    \/ Tamper
    \/ Query
    \/ Tick

LogSpec == LogInit /\ [][LogNext]_vars

(* C22: appending N entries with log() on a day D and then querying the    *)
(* range [D, D] returns exactly those N entries and nothing else, sorted   *)
(* by timestamp, each with the fields it was written with.                 *)
Count(v, seq) == Cardinality({k \in 1..Len(seq) : seq[k] = v})

ReturnedOn(days) ==
    SelectSeq(logReturned, LAMBDA r : r.entry.date \in days)

Undamaged(days) == days \cap (cutDays \cup tamperedDays) = {}

QueriedSameDay ==
    /\ queryArgs # << >>
    /\ queryArgs[1].start_date.day = queryArgs[1].end_date.day
    /\ NotAfter(queryArgs[1].start_date, queryArgs[1].end_date)
    /\ Undamaged({queryArgs[1].start_date.day})

Container(d) ==
    IF AuditLogPath(Moment(d, 0)) \in DOMAIN logsDir
    THEN logsDir[AuditLogPath(Moment(d, 0))].items
    ELSE << >>

\* C23: concurrent log() calls on one logger never lose an update: at most
\* one call at a time is between its read of the container and its rewrite,
\* and at every moment the container of a day that no failed write and no
\* outside hand touched holds exactly one entry per call that has returned
\* for that day.
C23_NoLostUpdate ==
    /\ Cardinality({t \in Threads : logPc[t] \in {"locked", "read"}}) <= 1
    /\ \A d \in Days :
          Undamaged({d}) =>
              LET written == ReturnedOn({d})
              IN /\ Len(Container(d)) = Len(written)
                 /\ \A k \in 1..Len(written) :
                       Count(written[k].entry, Container(d))
                           = Cardinality({j \in 1..Len(written) :
                                             written[j].entry = written[k].entry})

\* Two calls overlapped and both have returned: the one whose entry was built
\* first wrote last, so its call spans the whole of the other
C23_Witness ==
    \E d \in Days :
        /\ Undamaged({d})
        /\ Len(ReturnedOn({d})) = 2
        /\ Len(Container(d)) = 2
        /\ Container(d)[1].timestamp.tod > Container(d)[2].timestamp.tod
        /\ \A t \in Threads : logPc[t] = "idle"

\* What a later query reads of a day's container
Readable(d) ==
    IF AuditLogPath(Moment(d, 0)) \in DOMAIN logsDir
    THEN ReadForQuery(logsDir[AuditLogPath(Moment(d, 0))])
    ELSE << >>

\* C24: a log() write that fails part-way through rewriting the day's
\* container does not corrupt the entries the container held before: every
\* entry a returned call wrote is still read back by a later query, on any
\* day that only the logger itself wrote to.
C24_FailedWriteKeepsEntries ==
    \A d \in Days \ tamperedDays :
        \A k \in 1..Len(ReturnedOn({d})) :
            Count(ReturnedOn({d})[k].entry, Readable(d)) >= 1

\* A container that json cannot parse as the list of entries log() writes
Corrupted(text) == text.kind # "array"

\* C25: a corrupted or unparseable day container never makes log() or the
\* query raise: the read inside log() counts it as empty, keeping no part of
\* it, so that the rewrite holds only the new entry, and the query returns
\* normally.
C25_CorruptCountsAsEmpty ==
    [][/\ \A t \in Threads :
            (/\ logPc[t] = "locked"
             /\ logPc'[t] = "read"
             /\ logLocal[t].log_path \in DOMAIN logsDir
             /\ Corrupted(logsDir[logLocal[t].log_path]))
                => logLocal'[t].entries = << >>
       /\ (queryResult = << >> /\ queryResult' # << >>) => ~queryResult'[1].raised]_vars

\* C26: get_logs_for_date_range(start, end) returns exactly the entries of
\* the containers of every calendar day from start's day through end's day
\* inclusive, whatever the times of day of start and end (start not after
\* end), as one list in
\* ascending timestamp order (containers that only returned log() calls
\* wrote).
C26_RangeByCalendarDay ==
    (/\ queryArgs # << >>
     /\ NotAfter(queryArgs[1].start_date, queryArgs[1].end_date)
     /\ Undamaged(queryArgs[1].start_date.day..queryArgs[1].end_date.day)) =>
        LET written == ReturnedOn(queryArgs[1].start_date.day..queryArgs[1].end_date.day)
            logs == queryResult[1].logs
        IN /\ ~queryResult[1].raised
           /\ Len(logs) = Len(written)
           /\ \A k \in 1..Len(written) :
                 Count(written[k].entry, logs)
                     = Cardinality({j \in 1..Len(written) :
                                       written[j].entry = written[k].entry})
           /\ \A a, b \in 1..Len(logs) :
                 a < b => NotAfter(logs[a].timestamp, logs[b].timestamp)

-----------------------------------------------------------------------------
\* AuditLogger.cleanup_old_logs (src/utils/audit_logger.py)

RETENTION_DAYS == 90

\* The largest number of files in the Logs directory
MaxFiles == 3

\* A file name of the Logs directory in parts: the words before the stem,
\* the stem, the words after it. A stem is a date written with eight digits
\* (DateToken), a date whose day of the month is written with one digit, or
\* a word that is no date.
FileName(pre, stem, post) == [pre |-> pre, stem |-> stem, post |-> post]

ShortDateToken(day) == [digits |-> "YYYYMMD", day |-> day]

Word(w) == [digits |-> w, day |-> 0]

\* The day cleanup_old_logs runs on, and the days the files are named after:
\* 91, 90 and 89 days before it
CleanupDay == RETENTION_DAYS + 1

FileDays == {0, 1, 2}

StemsOf(day) == {DateToken(day), ShortDateToken(day)}

LogsDirNames ==
    {FileName(pre, stem, post) :
        pre \in {<< "audit_" >>, << "audit_", "audit_" >>, << "audit_", "x_" >>},
        stem \in UNION {StemsOf(d) : d \in FileDays},
        post \in {<< ".json" >>}}
    \cup {FileName(<< "audit_" >>, DateToken(d), << ".json", ".json" >>) : d \in FileDays}
    \cup {FileName(<< "audit_" >>, Word("summary"), << ".json" >>),
          FileName(<< "audit_" >>, Word(""), << ".json" >>),
          FileName(<< "error_", "gmail_watcher_" >>, DateToken(0), << ".log" >>),
          FileName(<< "ceo_briefing_" >>, DateToken(0), << ".json" >>)}

\* self.logs_dir.glob("audit_*.json")
Glob(n) ==
    /\ n.pre # << >>
    /\ n.pre[1] = "audit_"
    /\ n.post # << >>
    /\ n.post[Len(n.post)] = ".json"

\* filename.replace('audit_', '').replace('.json', ''): every occurrence goes
Replace(n) ==
    FileName(SelectSeq(n.pre, LAMBDA w : w # "audit_"), n.stem,
             SelectSeq(n.post, LAMBDA w : w # ".json"))

\* datetime.strptime(date_str, "%Y%m%d"): the date at midnight, or ValueError;
\* %d takes one digit or two
Strptime(date_str) ==
    IF /\ date_str.pre = << >>
       /\ date_str.post = << >>
       /\ date_str.stem.digits \in {"YYYYMMDD", "YYYYMMD"}
    THEN [raised |-> FALSE, value |-> Moment(date_str.stem.day, 0)]
    ELSE [raised |-> TRUE, value |-> Moment(0, 0)]

\* a < b on datetimes
Before(a, b) == ~NotAfter(b, a)

\* datetime.now() - timedelta(days=self.RETENTION_DAYS)
CutoffDate(now) == Moment(now.day - RETENTION_DAYS, now.tod)

\* The files the loop of cleanup_old_logs unlinks
Unlinked(dir, now) ==
    {n \in DOMAIN dir :
        /\ Glob(n)
        /\ ~Strptime(Replace(n)).raised
        /\ Before(Strptime(Replace(n)).value, CutoffDate(now))}

CleanupOldLogs(dir, now) ==
    [dir |-> [n \in (DOMAIN dir) \ Unlinked(dir, now) |-> dir[n]],
     deleted_count |-> Cardinality(Unlinked(dir, now))]

\* The call of cleanup_old_logs that __init__ makes
CleanupCall ==
    /\ cleanupReturned = << >>
    /\ UNCHANGED artVars
    /\ UNCHANGED watchVars
    /\ logsDir' = CleanupOldLogs(logsDir, clock).dir
    /\ cleanupReturned' = << CleanupOldLogs(logsDir, clock).deleted_count >>
    /\ UNCHANGED << clock, lockHolder, logPc, logLocal, logReturned, cutDays,
                    tamperedDays, queryArgs, queryResult, nLogCalls, nFaults,
                    retryCfg, attempt, retryPc, outcomes, slept, last_error,
                    retryOut, errorLog >>
    /\ UNCHANGED << fs, audit_enabled, max_iterations, iteration_count, task_history,
                    auditLog, pc, i, files_to_process, scanned, tasks_completed,
                    tasks_pending, completed, result, task, lastStage, lastCall,
                    analyzed, executed, mcpFired, nCalls, envSteps >>

\* The Logs directories an AuditLogger can be constructed on
RECURSIVE NameSetsUpTo(_)
NameSetsUpTo(k) ==
    IF k = 0 THEN {{}}
    ELSE NameSetsUpTo(k - 1)
            \cup {ns \cup {n} : ns \in NameSetsUpTo(k - 1), n \in LogsDirNames}

LogsDirs ==
    {[n \in names |-> Text("array", << >>)] : names \in NameSetsUpTo(MaxFiles)}

\* AuditLogger.__init__ before its last statement, at any time of the day
CleanupInit ==
    /\ LoopIdle
    /\ AuxIdle
    /\ logsDir \in LogsDirs
    /\ clock \in {Moment(CleanupDay, tod) : tod \in TimesOfDay}
    /\ lockHolder = 0
    /\ logPc = [t \in Threads |-> "idle"]
    /\ logLocal = [t \in Threads |-> << >>]
    /\ logReturned = << >>
    /\ cutDays = {}
    /\ tamperedDays = {}
    /\ queryArgs = << >>
    /\ queryResult = << >>
    /\ nLogCalls = 0
    /\ nFaults = 0

CleanupNext == CleanupCall

CleanupSpec == CleanupInit /\ [][CleanupNext]_vars

\* The claim's containers: audit_YYYYMMDD.json and no other name
IsContainerName(n) ==
    /\ n.pre = << "audit_" >>
    /\ n.post = << ".json" >>
    /\ n.stem.digits = "YYYYMMDD"

\* C27: cleanup_old_logs deletes exactly the containers audit_YYYYMMDD.json
\* whose date is older than the 90-day retention window (the date, at
\* midnight, lies before the cleanup time minus 90 days) and leaves every
\* other file of the Logs directory in place with its content.
C27_CleanupExact ==
    [][(cleanupReturned = << >> /\ cleanupReturned' # << >>) =>
          \A n \in DOMAIN logsDir :
              IF IsContainerName(n) /\ Before(Moment(n.stem.day, 0), CutoffDate(clock))
              THEN n \notin DOMAIN logsDir'
              ELSE n \in DOMAIN logsDir' /\ logsDir'[n] = logsDir[n]]_vars

-----------------------------------------------------------------------------
\* The retry loops: ErrorRecovery.retry_sync and retry_async
\* (src/utils/error_recovery.py) and the watchers' retry_with_backoff
\* (src/watchers/gmail_watcher.py)

\* ErrorRecovery.__init__ and GmailWatcher.__init__: retry configuration
MAX_RETRIES == 3

BASE_DELAY == 1

MAX_DELAY == 60

EXPONENTIAL_BASE == 2

\* The largest max_retries argument
MaxRetriesArg == 3

\* The base_delay arguments
BaseDelays == {1, 20}

\* The classes of the exceptions the wrapped function raises, all of them
\* subclasses of Exception
ExceptionClasses == {"ConnectionError", "ValueError"}

RetryKinds == {"retry_sync", "retry_async", "retry_with_backoff"}

Decorators == {"retry_sync", "retry_async"}

\* An optional argument: << >> when left at None, << v >> when given
Optional(values) == {<< >>} \cup {<< v >> : v \in values}

OrDefault(arg, default) == IF arg = << >> THEN default ELSE arg[1]

RECURSIVE Pow(_, _)
Pow(b, e) == IF e = 0 THEN 1 ELSE b * Pow(b, e - 1)

Min(a, b) == IF a <= b THEN a ELSE b

\* A delay that is never capped
DelayUncapped(base_delay, k) == base_delay * Pow(EXPONENTIAL_BASE, k)

\* delay = base_delay * (exponential_base ** attempt); min(delay, max_delay)
CalculateDelay(base_delay, k) ==
    Min(base_delay * Pow(EXPONENTIAL_BASE, k), MAX_DELAY)

\* A loop that makes one pass less
RangeShort(max_retries) == 0..(max_retries - 1)

\* range(max_retries + 1)
Range(max_retries) == 0..max_retries

\* except exceptions as e (the decorators), except Exception as e (the
\* watchers)
Caught(e, cfg) == e \in cfg.exceptions

\* The record log_error appends to Logs/error_<component>_<date>.log
ErrorRecord(component, error, context) ==
    [component |-> component, error_type |-> error, context |-> context]

\* The log_error call of the except block of retry_with_backoff
AttemptContext(k, max_retries) ==
    IF k < max_retries
    THEN [function |-> "func", attempt |-> k + 1]
    ELSE [function |-> "func", final |-> TRUE]

\* The exceptions the wrapped function raises: any of the classes under the
\* decorators, network errors under a watcher's poll
RaisedBy(kind) ==
    IF kind = "retry_with_backoff" THEN {"ConnectionError"} ELSE ExceptionClasses

RetryFrame ==
    /\ UNCHANGED artVars
    /\ UNCHANGED watchVars
    /\ UNCHANGED << logsDir, clock, lockHolder, logPc, logLocal, logReturned,
                    cutDays, tamperedDays, queryArgs, queryResult, nLogCalls,
                    nFaults, cleanupReturned >>
    /\ UNCHANGED << fs, audit_enabled, max_iterations, iteration_count, task_history,
                    auditLog, pc, i, files_to_process, scanned, tasks_completed,
                    tasks_pending, completed, result, task, lastStage, lastCall,
                    analyzed, executed, mcpFired, nCalls, envSteps >>

\* The wrapper is called: the arguments left at None take the defaults,
\* last_error = None, the for loop starts
RetryCall ==
    /\ retryPc = "idle"
    /\ \E kind \in RetryKinds, max_retries \in Optional(0..MaxRetriesArg),
          base_delay \in Optional(BaseDelays),
          exceptions \in Optional((SUBSET ExceptionClasses) \ {{}}) :
          /\ kind = "retry_with_backoff" => exceptions = << >>
          /\ retryCfg' = << [kind |-> kind,
                             max_retries |-> OrDefault(max_retries, MAX_RETRIES),
                             base_delay |-> OrDefault(base_delay, BASE_DELAY),
                             exceptions |-> OrDefault(exceptions, ExceptionClasses)] >>
    /\ attempt' = 0
    /\ last_error' = "None"
    /\ retryPc' = "calling"
    /\ UNCHANGED << outcomes, slept, retryOut, errorLog >>
    /\ RetryFrame

\* return func(*args, **kwargs)
RetryInvokeReturns ==
    /\ retryPc = "calling"
    /\ outcomes' = Append(outcomes, "ok")
    /\ retryOut' = << [raised |-> FALSE, value |-> "result"] >>
    /\ retryPc' = "done"
    /\ UNCHANGED << retryCfg, attempt, slept, last_error, errorLog >>
    /\ RetryFrame

\* func raises an exception the except clause catches: last_error is set,
\* the watchers' loop logs it, the delay is slept when a retry is left, and
\* the for loop goes to its next pass or ends
RetryInvokeFails ==
    /\ retryPc = "calling"
    /\ LET cfg == retryCfg[1]
       IN \E e \in RaisedBy(cfg.kind) :
             /\ Caught(e, cfg)
             /\ outcomes' = Append(outcomes, e)
             /\ last_error' = e
             /\ slept' = IF attempt < cfg.max_retries
                         THEN Append(slept, CalculateDelay(cfg.base_delay, attempt))
                         ELSE slept
             /\ errorLog' = IF cfg.kind = "retry_with_backoff"
                            THEN Append(errorLog,
                                        ErrorRecord("gmail_watcher", e,
                                                    AttemptContext(attempt, cfg.max_retries)))
                            ELSE errorLog
             /\ IF attempt + 1 \in Range(cfg.max_retries)
                THEN attempt' = attempt + 1 /\ retryPc' = "calling"
                ELSE attempt' = attempt /\ retryPc' = "exhausted"
    /\ UNCHANGED << retryCfg, retryOut >>
    /\ RetryFrame

\* func raises an exception the except clause does not name: it leaves the
\* wrapper at once
RetryInvokeEscapes ==
    /\ retryPc = "calling"
    /\ \E e \in RaisedBy(retryCfg[1].kind) :
          /\ ~Caught(e, retryCfg[1])
          /\ outcomes' = Append(outcomes, e)
          /\ retryOut' = << [raised |-> TRUE, value |-> e] >>
    /\ retryPc' = "done"
    /\ UNCHANGED << retryCfg, attempt, slept, last_error, errorLog >>
    /\ RetryFrame

\* After the loop: raise last_error (the decorators), return None (the
\* watchers)
RetryExhausted ==
    /\ retryPc = "exhausted"
    /\ retryOut' = IF retryCfg[1].kind \in Decorators
                   THEN << [raised |-> TRUE, value |-> last_error] >>
                   ELSE << [raised |-> FALSE, value |-> "None"] >>
    /\ retryPc' = "done"
    /\ UNCHANGED << retryCfg, attempt, outcomes, slept, last_error, errorLog >>
    /\ RetryFrame

\* An ErrorRecovery object and a watcher constructed, nothing called yet
RetryInit ==
    /\ LoopIdle
    /\ UtilIdle

RetryNext ==
    \/ RetryCall
    \/ RetryInvokeReturns
    \/ RetryInvokeFails
    \/ RetryInvokeEscapes
    \/ RetryExhausted

RetrySpec == RetryInit /\ [][RetryNext]_vars

\* A call of one of the decorators' wrappers has ended
DecoratorDone ==
    /\ retryPc = "done"
    /\ retryCfg[1].kind \in Decorators

AllFailed == \A k \in 1..Len(outcomes) : outcomes[k] # "ok"

AllCaught == \A k \in 1..Len(outcomes) : outcomes[k] \in retryCfg[1].exceptions

\* The call ended as retry ends when every attempt failed
Exhausted ==
    /\ Len(outcomes) = retryCfg[1].max_retries + 1
    /\ Len(slept) = retryCfg[1].max_retries
    /\ retryOut[1].raised
    /\ retryOut[1].value = outcomes[Len(outcomes)]

\* The call ended with the first successful attempt
ReturnedAtOnce ==
    /\ outcomes[Len(outcomes)] = "ok"
    /\ \A k \in 1..(Len(outcomes) - 1) : outcomes[k] # "ok"
    /\ Len(slept) = Len(outcomes) - 1
    /\ ~retryOut[1].raised
    /\ retryOut[1].value = "result"

\* C28 as stated: when the wrapped operation fails on every attempt,
\* retry_sync / retry_async invoke it exactly max_retries + 1 times, wait
\* exactly max_retries times and let the operation's exception propagate;
\* when an attempt succeeds its result is returned at once.
C28_RetryExhausts ==
    DecoratorDone => IF AllFailed THEN Exhausted ELSE ReturnedAtOnce

\* C28 amended: the same, for an operation that fails on every attempt with
\* an exception of the classes being retried (the exceptions argument, any
\* Exception by default); an exception of another class propagates from the
\* attempt that raised it, with no further invocation and no wait after it.
C28_RetryExhaustsCaught ==
    DecoratorDone =>
        IF AllFailed
        THEN IF AllCaught
             THEN Exhausted
             ELSE /\ retryOut[1].raised
                  /\ retryOut[1].value = outcomes[Len(outcomes)]
                  /\ retryOut[1].value \notin retryCfg[1].exceptions
                  /\ \A k \in 1..(Len(outcomes) - 1) :
                        outcomes[k] \in retryCfg[1].exceptions
                  /\ Len(slept) = Len(outcomes) - 1
        ELSE ReturnedAtOnce

\* Four failures with the default three retries: three waits, then the last
\* exception, which differs from the first, propagates
C28_Witness ==
    /\ DecoratorDone
    /\ retryCfg[1].max_retries = MAX_RETRIES
    /\ AllFailed
    /\ Len(outcomes) = MAX_RETRIES + 1
    /\ Len(slept) = MAX_RETRIES
    /\ outcomes[1] # outcomes[Len(outcomes)]
    /\ retryOut[1].raised

\* C29: the delay waited after failed attempt k (k = 0, 1, 2, ...) is
\* min(base_delay * 2^k, max_delay): no delay exceeds max_delay (60), and with
\* base_delay 1 and max_retries 3 the delays of a call that failed throughout
\* are 1, 2, 4.
C29_BackoffDelays ==
    retryCfg # << >> =>
        /\ \A k \in 0..(Len(slept) - 1) :
              /\ slept[k + 1] = Min(retryCfg[1].base_delay * (2 ^ k), 60)
              /\ slept[k + 1] <= 60
        /\ (/\ retryCfg[1].base_delay = 1
            /\ retryCfg[1].max_retries = 3
            /\ retryPc = "done"
            /\ AllFailed
            /\ AllCaught) => slept = << 1, 2, 4 >>

\* A delay that the cap shortened was waited
C29_Witness ==
    /\ retryCfg # << >>
    /\ \E k \in 0..(Len(slept) - 1) :
          /\ retryCfg[1].base_delay * (2 ^ k) > 60
          /\ slept[k + 1] = 60

\* A failure met by a retry loop: an attempt that raised an exception the
\* loop caught
FailedAttempts == {k \in 1..Len(outcomes) : outcomes[k] \in retryCfg[1].exceptions}

\* C30: every failed attempt inside a retry loop, each retried one as well as
\* the final one, appends its own record to the per-component error log, and
\* the record of a retried attempt carries its attempt number in its context.
C30_EveryAttemptLogged ==
    retryCfg # << >> =>
        /\ Len(errorLog) = Cardinality(FailedAttempts)
        /\ \A k \in FailedAttempts :
              /\ errorLog[k].error_type = outcomes[k]
              /\ k <= retryCfg[1].max_retries =>
                    /\ "attempt" \in DOMAIN errorLog[k].context
                    /\ errorLog[k].context.attempt = k

-----------------------------------------------------------------------------
\* A watcher's monitoring loop: GmailWatcher.run (src/watchers/gmail_watcher.py)

\* The largest number of passes of the while loop followed
MaxChecks == 2

\* What a successful search returns: the unread messages matching the query
SearchResults == {<< >>, << "m1", "m2" >>}

\* A loop that gives up after a skipped check
AfterCheckStops(skipped) == IF skipped THEN "stopped" ELSE "sleeping"

\* The end of a pass of `while True`: time.sleep(120), then the next pass,
\* whether the check was skipped or not
AfterCheck(skipped) == "sleeping"

\* self.retry_with_backoff(func, ...) with max_retries and base_delay left at
\* None: the watcher's own configuration
CallRetryWithBackoff ==
    /\ retryCfg' = << [kind |-> "retry_with_backoff", max_retries |-> MAX_RETRIES,
                       base_delay |-> BASE_DELAY, exceptions |-> ExceptionClasses] >>
    /\ attempt' = 0
    /\ last_error' = "None"
    /\ retryPc' = "calling"
    /\ outcomes' = << >>
    /\ slept' = << >>
    /\ retryOut' = << >>

\* retry_with_backoff has returned to the loop
RetryReturned ==
    /\ retryOut' = << >>
    /\ retryPc' = "idle"
    /\ UNCHANGED << retryCfg, attempt, last_error, outcomes, slept >>

WatchFrame ==
    /\ UNCHANGED << logsDir, clock, lockHolder, logPc, logLocal, logReturned,
                    cutDays, tamperedDays, queryArgs, queryResult, nLogCalls,
                    nFaults, cleanupReturned, errorLog, artVars >>
    /\ UNCHANGED << fs, audit_enabled, max_iterations, iteration_count, task_history,
                    auditLog, pc, i, files_to_process, scanned, tasks_completed,
                    tasks_pending, completed, result, task, lastStage, lastCall,
                    analyzed, executed, mcpFired, nCalls, envSteps >>

\* A pass of `while True` starts: messages = retry_with_backoff(search_emails)
WatchSearch ==
    /\ watchPc = "sleeping"
    /\ nChecks < MaxChecks
    /\ nChecks' = nChecks + 1
    /\ CallRetryWithBackoff
    /\ watchPc' = "search"
    /\ UNCHANGED << watchQueue, watchSaved, watchSkipped >>
    /\ WatchFrame

\* if messages: the for loop is entered; else "Skipped email check" is
\* printed and the pass ends with time.sleep(120)
WatchSearchDone ==
    /\ watchPc = "search"
    /\ retryPc = "done"
    /\ \E messages \in (IF retryOut[1].value = "None" THEN {<< >>} ELSE SearchResults) :
          /\ watchQueue' = messages
          /\ watchPc' = IF messages # << >> THEN "messages"
                        ELSE AfterCheck(retryOut[1].value = "None")
    /\ watchSkipped' = IF retryOut[1].value = "None"
                       THEN Append(watchSkipped, [check |-> nChecks, unit |-> "search_emails"])
                       ELSE watchSkipped
    /\ RetryReturned
    /\ UNCHANGED << nChecks, watchSaved >>
    /\ WatchFrame

\* for msg in messages: email_data = retry_with_backoff(get_email_details, id)
WatchDetails ==
    /\ watchPc = "messages"
    /\ watchQueue # << >>
    /\ CallRetryWithBackoff
    /\ watchPc' = "details"
    /\ UNCHANGED << nChecks, watchQueue, watchSaved, watchSkipped >>
    /\ WatchFrame

\* if email_data: the e-mail is saved and marked as read; else the for loop
\* goes to the next message
WatchDetailsDone ==
    /\ watchPc = "details"
    /\ retryPc = "done"
    /\ IF retryOut[1].value = "None"
       THEN /\ watchSkipped' = Append(watchSkipped,
                                      [check |-> nChecks, unit |-> Head(watchQueue)])
            /\ UNCHANGED watchSaved
       ELSE /\ watchSaved' = Append(watchSaved,
                                    [check |-> nChecks, msg |-> Head(watchQueue)])
            /\ UNCHANGED watchSkipped
    /\ watchQueue' = Tail(watchQueue)
    /\ watchPc' = "messages"
    /\ RetryReturned
    /\ UNCHANGED nChecks
    /\ WatchFrame

\* The for loop is over: print, time.sleep(120)
WatchMessagesDone ==
    /\ watchPc = "messages"
    /\ watchQueue = << >>
    /\ watchPc' = AfterCheck(FALSE)
    /\ UNCHANGED << nChecks, watchQueue, watchSaved, watchSkipped >>
    /\ UNCHANGED << retryCfg, attempt, retryPc, outcomes, slept, last_error, retryOut >>
    /\ WatchFrame

\* GmailWatcher.run entered, about to start its first pass
WatchInit ==
    /\ LoopIdle
    /\ logsDir = << >>
    /\ clock = [day |-> 0, tod |-> 0]
    /\ lockHolder = 0
    /\ logPc = << >>
    /\ logLocal = << >>
    /\ logReturned = << >>
    /\ cutDays = {}
    /\ tamperedDays = {}
    /\ queryArgs = << >>
    /\ queryResult = << >>
    /\ nLogCalls = 0
    /\ nFaults = 0
    /\ cleanupReturned = << >>
    /\ retryCfg = << >>
    /\ attempt = 0
    /\ retryPc = "idle"
    /\ outcomes = << >>
    /\ slept = << >>
    /\ last_error = "None"
    /\ retryOut = << >>
    /\ errorLog = << >>
    /\ watchPc = "sleeping"
    /\ nChecks = 0
    /\ watchQueue = << >>
    /\ watchSaved = << >>
    /\ watchSkipped = << >>
    /\ ArtIdle

WatchNext ==
    \/ WatchSearch
    \/ WatchSearchDone
    \/ WatchDetails
    \/ WatchDetailsDone
    \/ WatchMessagesDone
    \/ RetryInvokeReturns
    \/ RetryInvokeFails
    \/ RetryExhausted

WatchSpec == WatchInit /\ [][WatchNext]_vars

\* C31: in a watcher's monitoring loop a polled operation that fails on all
\* max_retries + 1 attempts does not abort the process: the loop never stops,
\* nothing is saved for the skipped unit of work, and the loop goes on (to the
\* next message, or to the sleep before the next check).
C31_FailureSkipsUnit ==
    /\ watchPc # "stopped"
    /\ \A k \in 1..Len(watchSkipped) :
          /\ \A j \in 1..Len(watchSaved) :
                ~(/\ watchSaved[j].check = watchSkipped[k].check
                  /\ watchSkipped[k].unit \in {"search_emails", watchSaved[j].msg})
          /\ watchSkipped[k].check <= nChecks
    /\ (retryPc = "done" /\ retryOut[1].value = "None") =>
          /\ Len(outcomes) = MAX_RETRIES + 1
          /\ \A k \in 1..Len(outcomes) : outcomes[k] # "ok"
          /\ watchPc \in {"search", "details"}

\* The first check was skipped after its search failed four times, and the
\* second check has saved an e-mail
C31_Witness ==
    /\ \E k \in 1..Len(watchSkipped) :
          watchSkipped[k] = [check |-> 1, unit |-> "search_emails"]
    /\ \E j \in 1..Len(watchSaved) : watchSaved[j].check = 2
    /\ Len(errorLog) >= MAX_RETRIES + 1

-----------------------------------------------------------------------------
\* Error artifacts: ErrorRecovery.write_skill_error and write_manual_action
\* (src/utils/error_recovery.py)

\* The largest number of artifact-writing calls followed
MaxArtifacts == 2

SkillNames == {"email_skill", "social_skill"}

\* datetime.now().strftime("%Y%m%d_%H%M%S"): the clock down to the second
\* (a step of the clock is a second here)
SecondStamp(now) == [digits |-> "YYYYMMDD_HHMMSS", day |-> now.day, tod |-> now.tod]

\* self.errors_dir / f"skill_error_{skill_name}_{date_str}.md"
SkillErrorFile(skill_name, now) ==
    << "Errors", "skill_error_", skill_name, SecondStamp(now), ".md" >>

\* self.plans_dir / f"manual_action_{skill_name}_{date_str}.md"
ManualActionFile(skill_name, now) ==
    << "Plans", "manual_action_", skill_name, SecondStamp(now), ".md" >>

\* The report: frontmatter type, skill, error or action and timestamp
ErrorReport(skill_name, error, now) ==
    [type |-> "skill_error", skill |-> skill_name, what |-> error,
     timestamp |-> SecondStamp(now)]

ActionDraft(skill_name, action_type, now) ==
    [type |-> "manual_action", skill |-> skill_name, what |-> action_type,
     timestamp |-> SecondStamp(now)]

\* open(path, 'w') and f.write(text): the file is created or replaced
OpenWrite(dir, path, text) ==
    [n \in (DOMAIN dir) \cup {path} |-> IF n = path THEN text ELSE dir[n]]

ArtFrame ==
    /\ UNCHANGED << logsDir, clock, lockHolder, logPc, logLocal, logReturned,
                    cutDays, tamperedDays, queryArgs, queryResult, nLogCalls,
                    nFaults, cleanupReturned, retryCfg, attempt, retryPc, outcomes,
                    slept, last_error, retryOut, errorLog, watchVars >>
    /\ UNCHANGED << fs, audit_enabled, max_iterations, iteration_count, task_history,
                    auditLog, pc, i, files_to_process, scanned, tasks_completed,
                    tasks_pending, completed, result, task, lastStage, lastCall,
                    analyzed, executed, mcpFired, nCalls, envSteps >>

WriteSkillError ==
    /\ Len(artWritten) < MaxArtifacts
    /\ \E skill_name \in SkillNames, error \in ExceptionClasses :
          LET error_file == SkillErrorFile(skill_name, clock)
              error_report == ErrorReport(skill_name, error, clock)
          IN /\ artifacts' = OpenWrite(artifacts, error_file, error_report)
             /\ artWritten' = Append(artWritten,
                                     [path |-> error_file, text |-> error_report])
    /\ ArtFrame

WriteManualAction ==
    /\ Len(artWritten) < MaxArtifacts
    /\ \E skill_name \in SkillNames, action_type \in {"email", "post"} :
          LET action_file == ManualActionFile(skill_name, clock)
              action_draft == ActionDraft(skill_name, action_type, clock)
          IN /\ artifacts' = OpenWrite(artifacts, action_file, action_draft)
             /\ artWritten' = Append(artWritten,
                                     [path |-> action_file, text |-> action_draft])
    /\ ArtFrame

\* An ErrorRecovery object constructed on empty Errors and Plans directories
ArtInit ==
    /\ LoopIdle
    /\ AuxIdle
    /\ logsDir = << >>
    /\ clock = Moment(0, 0)
    /\ lockHolder = 0
    /\ logPc = [t \in Threads |-> "idle"]
    /\ logLocal = [t \in Threads |-> << >>]
    /\ logReturned = << >>
    /\ cutDays = {}
    /\ tamperedDays = {}
    /\ queryArgs = << >>
    /\ queryResult = << >>
    /\ nLogCalls = 0
    /\ nFaults = 0

ArtNext ==
    \/ WriteSkillError
    \/ WriteManualAction
    \/ Tick

ArtSpec == ArtInit /\ [][ArtNext]_vars

\* C32: an error artifact is written once and never mutated: the file of
\* every write_skill_error / write_manual_action call that returned is still
\* there with the text that call wrote, and every recorded failure has a file
\* of its own, also when one skill fails twice within the same second.
C32_ArtifactsKept ==
    /\ \A k \in 1..Len(artWritten) :
          /\ artWritten[k].path \in DOMAIN artifacts
          /\ artifacts[artWritten[k].path] = artWritten[k].text
    /\ Cardinality(DOMAIN artifacts) = Len(artWritten)

-----------------------------------------------------------------------------
\* C33: execute_task returns True only when the task is complete (the
\* completion handler has run) and False whenever the item still requires
\* further steps; so in run_iteration a call that counted its item as
\* completed was a call of the completion handler, and an item waiting for
\* approval is counted as pending.
C33_TrueOnlyWhenComplete ==
    lastCall # << >> =>
        /\ lastCall[1].ret <=> lastCall[1].from = "completion"
        /\ (lastCall[1].from = "hitl_approval" /\ ~lastCall[1].approved)
              => ~lastCall[1].ret

\* C34: over a whole run the execution trigger fires at most once per
\* approved item: no file is given to _trigger_mcp in two iterations of one
\* run.
C34_McpOncePerItem ==
    \A a, b \in 1..Len(mcpFired) :
        mcpFired[a].target = mcpFired[b].target => a = b

\* The file n belongs to the item whose file is named item: it is that file,
\* or a draft written for it (its stem with a prefix and a suffix around the
\* whole stem of the item, as the skills name their drafts)
SameItem(n, item) ==
    \/ n = item
    \/ Stem(n) = << "draft_" >> \o Stem(item)

\* C35: the approval check and the draft check match only files of the same
\* item: a call that takes an item from hitl_approval to mcp_execution found
\* in Approved a file of that item, and a call that takes it from
\* skill_execution to hitl_approval leaves in Pending_Approval a file of that
\* item; a file of another item whose name merely contains the stem does not
\* count.
C35_MatchesOwnFilesOnly ==
    [][(lastCall' # lastCall /\ lastCall' # << >>) =>
          /\ (lastCall'[1].from = "hitl_approval" /\ lastCall'[1].to = "mcp_execution")
                => \E n \in Files(fs, Approved) : SameItem(n, lastCall'[1].path.name)
          /\ (lastCall'[1].from = "skill_execution" /\ lastCall'[1].to = "hitl_approval")
                => \E n \in Files(fs', PendingApproval) :
                      SameItem(n, lastCall'[1].path.name)]_vars

-----------------------------------------------------------------------------
\* Two AuditLogger objects on one Logs directory: the loop's own
\* (src/tools/ralph_loop_runner.py) and a skill's
\* (src/skills/social_summary_generator/social_summary_generator.py)

\* Each thread has constructed an AuditLogger of its own: two locks
MultiLogInit ==
    /\ LoopIdle
    /\ AuxIdle
    /\ logsDir = << >>
    /\ clock = Moment(0, 0)
    /\ lockHolder = [l \in Threads |-> 0]
    /\ logPc = [t \in Threads |-> "idle"]
    /\ logLocal = [t \in Threads |-> << >>]
    /\ logReturned = << >>
    /\ cutDays = {}
    /\ tamperedDays = {}
    /\ queryArgs = << >>
    /\ queryResult = << >>
    /\ nLogCalls = 0
    /\ nFaults = 0

MultiLogSpec == MultiLogInit /\ [][LogNext]_vars

\* C36: audit entries are not lost when the writers are different
\* AuditLogger objects on the same Logs directory: after overlapping log()
\* calls on the same day the day's container holds the entry of every call
\* that returned (on days no failed write and no outside hand touched).
C36_NoLostUpdateAcrossLoggers ==
    \A d \in Days :
        Undamaged({d}) =>
            \A k \in 1..Len(ReturnedOn({d})) :
                Count(ReturnedOn({d})[k].entry, Container(d))
                    >= Cardinality({j \in 1..k : ReturnedOn({d})[j].entry
                                                    = ReturnedOn({d})[k].entry})

-----------------------------------------------------------------------------
\* C37: a task_finalized entry with result "success" is recorded for a file
\* only if, after the completion call that recorded it, the file is in Done:
\* a completion whose move failed or found no file records no successful
\* move.
C37_FinalizedOnlyIfInDone ==
    [][\A k \in (Len(auditLog) + 1)..Len(auditLog') :
          (/\ auditLog'[k].action_type = "task_finalized"
           /\ auditLog'[k].result = "success")
          => auditLog'[k].target.name \in Files(fs', Done)]_vars

\* C38: Done is an archive the loop only adds to: no step removes a file of
\* Done or changes its content, also when the item being completed has the
\* name of a file that is in Done already.
C38_DoneAddOnly ==
    [][\A n \in Files(fs, Done) :
          /\ n \in Files(fs', Done)
          /\ fs'[Done][n] = fs[Done][n]]_vars

-----------------------------------------------------------------------------
\* cleanup_old_logs over containers that log() wrote
\* (src/utils/audit_logger.py)

\* The moments of a day told apart here: midnight, a morning, an evening
RetentionTimes == {0, 1, 2}

\* What log() left in the container of a day: one entry, or two in the
\* order of their time
WrittenOn(day) ==
    LET e(t) == LogEntry([action_type |-> "file_processed", actor |-> "",
                          target |-> "a.md", result |-> "success"],
                         Moment(day, t))
    IN {<< e(t) >> : t \in RetentionTimes}
          \cup {<< e(tu[1]), e(tu[2]) >> :
                   tu \in {p \in RetentionTimes \X RetentionTimes : p[1] < p[2]}}

\* _get_audit_log_path(date) in the parts cleanup_old_logs takes it apart by
ContainerName(day) == FileName(<< "audit_" >>, DateToken(day), << ".json" >>)

\* The Logs directories log() can have built on the days of FileDays
WrittenLogsDirs ==
    UNION {[{ContainerName(d) : d \in ds}
              -> UNION {{JsonDump(es) : es \in WrittenOn(d)} : d \in ds}] :
           ds \in SUBSET FileDays}

RetentionInit ==
    /\ LoopIdle
    /\ AuxIdle
    /\ logsDir \in {dir \in WrittenLogsDirs :
                       \A n \in DOMAIN dir :
                           \A k \in 1..Len(dir[n].items) :
                               dir[n].items[k].date = n.stem.day}
    /\ clock \in {Moment(CleanupDay, tod) : tod \in RetentionTimes}
    /\ lockHolder = 0
    /\ logPc = [t \in Threads |-> "idle"]
    /\ logLocal = [t \in Threads |-> << >>]
    /\ logReturned = << >>
    /\ cutDays = {}
    /\ tamperedDays = {}
    /\ queryArgs = << >>
    /\ queryResult = << >>
    /\ nLogCalls = 0
    /\ nFaults = 0

RetentionSpec == RetentionInit /\ [][CleanupNext]_vars

\* C39: cleanup_old_logs never deletes an audit entry less than 90 days
\* old: every entry whose timestamp lies after the cleanup time minus
\* 90 x 24 hours is in its container after the call, also when the container
\* is dated exactly 90 days before the current date.
C39_RecentEntriesKept ==
    [][(cleanupReturned = << >> /\ cleanupReturned' # << >>) =>
          \A n \in DOMAIN logsDir :
              \A k \in 1..Len(logsDir[n].items) :
                  Before(CutoffDate(clock), logsDir[n].items[k].timestamp)
                  => /\ n \in DOMAIN logsDir'
                     /\ Count(logsDir[n].items[k], logsDir'[n].items) >= 1]_vars

-----------------------------------------------------------------------------
\* RalphWiggumLoop(max_iterations=N).run() and ralph-loop --max-iterations N
\* for every N from 0 on (src/tools/ralph_loop_runner.py)

\* main: args.max_iterations (type=int) goes to the constructor as it is
GivenMaxIterations == 0..MaxIterInput

ArgInit ==
    ConstructedWith("constructed", [d \in Dirs |-> EmptyDir], GivenMaxIterations)

ArgSpec == ArgInit /\ [][Next]_vars

\* C40: for every non-negative max_iterations N given to the constructor or
\* to --max-iterations, run performs at most N iterations; with N = 0 no
\* iteration is run.
C40_AtMostGivenIterations ==
    \A n \in GivenMaxIterations :
        EffectiveMaxIterations(n) = max_iterations => iteration_count <= n

====
